---- MODULE Spec2Model ----
(***************************************************************************)
(* EchoMind: the server-side Session Proxy (server index.js, the           *)
(* wss.on("connection") closure), the AssemblyAIStreaming upstream client  *)
(* (assemblyai-streaming.js) and the receiving side of the browser's       *)
(* WebSocketManager (client/src/websocket.js).                             *)
(*                                                                         *)
(* One client connection is modelled.  Node runs every handler to          *)
(* completion; the only suspension points of the server are the two awaits *)
(* of the audio_data path (await assemblyAI.connect(...) inside            *)
(* connectToAssemblyAI, and await connectToAssemblyAI() in the message     *)
(* handler).  Their continuations are promise jobs: they run in FIFO order *)
(* as soon as the running JavaScript stack is empty, hence before any      *)
(* other I/O callback.  Client messages that were received in one chunk    *)
(* are dispatched by the ws receiver from one stack, so a later message    *)
(* handler starts while an earlier one is suspended at its await.          *)
(***************************************************************************)
EXTENDS Integers, Sequences, FiniteSets, TLC

\* ---------------------------------------------------------------- bounds
MaxSockets == 2      \* upstream WebSockets created on one client connection
MaxClientMsgs == 3   \* client messages handled on one client connection
MaxSuspended == 2    \* message handlers suspended at the connect await
MaxUpMsgs == 2       \* upstream payloads received on one client connection
MaxRelayMsgs == 2    \* client messages handled in the relay specification
MaxRelaySockets == 1 \* upstream WebSockets created in the relay specification
MaxRelayEvents == 3  \* client messages and upstream payloads handled, taken
                     \* together, in the relay specification
MaxTextLen == 2      \* characters of a generated transcript text
MaxReceipts == 2     \* times the upstream message handler is given a payload
MaxMgrSockets == 3   \* browser WebSockets created by one WebSocketManager
MaxMgrCalls == 3     \* calls of the methods of one WebSocketManager
MaxObservers == 2    \* functions the user registers as observers
MaxObserverSockets == 1 \* browser WebSockets followed with observers registered
MaxSamples == 12288  \* samples given to one AudioProcessor
MaxQuantLen == 2     \* samples of a Float32Array given to convertToBase64
MaxQuantStep == 1    \* numerators tried on each side of a centre
MaxAppFrames == 2    \* frames the App gives to sendAudio
MaxClicks == 3       \* clicks of the microphone button that are handled
MaxAppSockets == 2   \* browser WebSockets created by the manager of the App

\* ------------------------------------------------------------- constants
NoSocket == 0        \* this.ws = null
OPEN == 1            \* WebSocket.OPEN, the literal of the forward check
CodeNormal == 1000
CodeInvalidKey == 4001
CodeDeprecated == 4105
CodeNoStatus == 1005
NoCode == 0          \* no 'close' event yet
KeyMissing == ""     \* ASSEMBLYAI_API_KEY is not set: !this.apiKey
KeyBadHeader == "bad\nkey" \* a key no HTTP header may carry
KeyValid == "key"    \* a key a WebSocket can be created with
maxReconnectAttempts == 5
reconnectDelay == 1000
bufferSize == 4096   \* AudioProcessor: this.bufferSize
maxAttempts == 10    \* handleStopRecording: const maxAttempts
pollInterval == 200  \* handleStopRecording: setTimeout(resolve, 200)

Sockets == 1..MaxSockets
\* enough browser sockets for a first connection, a reconnect for every
\* attempt up to the ceiling, and one more
MgrSockets == 1..(maxReconnectAttempts + 2)
MgrCloseCodes == {CodeNormal, CodeNoStatus}
CloseCodes == {CodeNormal, CodeInvalidKey, CodeDeprecated}

\* An upstream socket is "none" (not created yet), "connecting", "open",
\* "closing" (close() was called), "errored" ('error' was emitted and 'close'
\* is still to come) or "closed".

\* ws readyState numbers: CONNECTING 0, OPEN 1, CLOSING 2, CLOSED 3
readyState(st) ==
  CASE st = "connecting" -> 0
    [] st = "open" -> 1
    [] st = "closing" -> 2
    [] st = "errored" -> 2
    [] OTHER -> 3

\* ---------------------------------------------------------------- texts
Punctuation == {".", ",", "!", "?"}
UpperCase ==
  {"A", "B", "C", "D", "E", "F", "G", "H", "I", "J", "K", "L", "M", "N", "O",
   "P", "Q", "R", "S", "T", "U", "V", "W", "X", "Y", "Z"}
TextPlain == <<"h", "i">>
TextFormatted == <<"H", "i", ".">>
TextEmpty == <<>>
HelloWorldPlain == <<"h", "e", "l", "l", "o", " ", "w", "o", "r", "l", "d">>
HelloWorldFormatted ==
  <<"H", "e", "l", "l", "o", " ", "w", "o", "r", "l", "d", ".">>

\* the characters transcript texts are generated from: a lower-case letter,
\* upper-case letters, the four marks, and characters that are neither
Alphabet == {"h", "H", "Z", ".", ",", "!", "?", " ", "1", ";"}
ClassifierTexts ==
  UNION {[1..n -> Alphabet] : n \in 0..MaxTextLen}
    \cup {HelloWorldPlain, HelloWorldFormatted}

\* ------------------------------------------- messages sent to the client
Msg(type, message, error, code, text, partial, final) ==
  [type |-> type, message |-> message, error |-> error, code |-> code,
   text |-> text, partial |-> partial, final |-> final]

LifecycleMsg(type, message) == Msg(type, message, "", 0, <<>>, FALSE, FALSE)
ErrorMsg(error, code) == Msg("", "", error, code, <<>>, FALSE, FALSE)
TypedErrorMsg(type, error) == Msg(type, "", error, 0, <<>>, FALSE, FALSE)
TranscriptMsg(text, partial, final) == Msg("", "", "", 0, text, partial, final)

ConnectionEstablished ==
  LifecycleMsg("connection_established", "WebSocket connection established successfully")
AssemblyAIConnected ==
  LifecycleMsg("assemblyai_connected", "AssemblyAI connection established successfully")
SessionTerminatedConfirm ==
  LifecycleMsg("session_terminated", "AssemblyAI session terminated successfully")
TerminationError ==
  TypedErrorMsg("termination_error", "Failed to terminate AssemblyAI session")
InvalidMessageFormat == ErrorMsg("Invalid message format", 0)
ConnectionErrorMsg == ErrorMsg("AssemblyAI connection error", 0)
MissingKeyErrorMsg ==
  ErrorMsg("AssemblyAI connection error: AssemblyAI API key is required", 0)
AssemblyAIError ==
  TypedErrorMsg("assemblyai_error", "Failed to connect to AssemblyAI")

\* --------------------------------------------------- upstream payloads
Payload(json, type, mtype, transcript, eot) ==
  [json |-> json, type |-> type, message_type |-> mtype,
   transcript |-> transcript, end_of_turn |-> eot]

PartialTurn == Payload(TRUE, "Turn", "", TextPlain, FALSE)
FinalTurnFormatted == Payload(TRUE, "Turn", "", TextFormatted, TRUE)
FinalTurnPlain == Payload(TRUE, "Turn", "", TextPlain, TRUE)
EmptyTurn == Payload(TRUE, "Turn", "", TextEmpty, FALSE)
SessionBeginsPayload == Payload(TRUE, "", "SessionBegins", TextEmpty, FALSE)
SessionTerminatedPayload == Payload(TRUE, "", "SessionTerminated", TextEmpty, FALSE)
OtherPayload == Payload(TRUE, "Begin", "", TextEmpty, FALSE)
MalformedPayload == Payload(FALSE, "", "", TextEmpty, FALSE)

Payloads ==
  {PartialTurn, FinalTurnFormatted, FinalTurnPlain, EmptyTurn,
   SessionBeginsPayload, SessionTerminatedPayload, OtherPayload,
   MalformedPayload}

\* the payloads of the relay specification: a relayed partial, a relayed
\* final, a dropped final and the relayed lifecycle payload
RelayPayloads ==
  {PartialTurn, FinalTurnFormatted, FinalTurnPlain, SessionTerminatedPayload}

\* the payloads of the upstream-fault specification: a relayed partial and a
\* payload that does not parse
FaultPayloads == {PartialTurn, MalformedPayload}

\* the payloads of the classifier specification
ClassifierPayloads ==
  Payloads \cup {Payload(TRUE, "Turn", "", t, eot) :
                   t \in ClassifierTexts, eot \in BOOLEAN}
           \cup {Payload(TRUE, "Turn", mt, t, FALSE) :
                   mt \in {"SessionBegins", "SessionTerminated"},
                   t \in {TextEmpty, TextPlain}}

VARIABLES
  apiKey,           \* assemblyAIKey (process.env.ASSEMBLYAI_API_KEY)
  isSessionActive,  \* let isSessionActive
  isTerminating,    \* let isTerminating
  ws,               \* assemblyAI.ws: a socket id, or NoSocket
  sock,             \* state of every upstream WebSocket created so far
  tasks,            \* promise jobs: continuations of suspended handlers, FIFO
  draining,         \* the promise job queue is being drained
  pc,               \* position inside the terminate_session branch
  client,           \* server's end of the client channel: open, errored, closed
  wire,             \* messages sent by client.send, not yet seen by the browser
  observed,         \* what the browser's message observers were called with
  sentUp,           \* audio frames transmitted upstream: <<frame, socket>>
  upLog,            \* upstream payloads received while the client channel was open
  nMsgs,            \* client messages handled
  nAudio,           \* audio_data messages handled (frames are numbered by it)
  nTerm,            \* terminate_session requests handled
  connectCalls,     \* calls of AssemblyAIStreaming.connect
  terminated,       \* sockets the session owned when a terminate request came
  afterTerm,        \* no audio_data was handled since the last terminate request
  sendOk,           \* the server's end of the client channel is OPEN
                    \* (readyState 1); client.send transmits nothing otherwise
  uncaught,         \* an exception escaped a handler of the server
  unguarded,        \* a client.send that no try block encloses was made on a
                    \* channel that had left OPEN: it failed with no catch
                    \* block to go to
  closeCode,        \* close codes of the upstream sockets, kept while the client
                    \* channel is OPEN
  clsIn,            \* classifier: the raw upstream payload
  clsOut,           \* classifier: what the message handler handed to onMessage
  clsDone,          \* classifier: the message handler has run on clsIn
  clsLog,           \* classifier: every onMessage call so far, in order
  clsSeen,          \* classifier: times the message handler has run on clsIn
  mws,              \* WebSocketManager: this.ws, a browser socket id or NoSocket
  isConnected,      \* WebSocketManager: this.isConnected
  isConnecting,     \* WebSocketManager: this.isConnecting
  reconnectAttempts, \* WebSocketManager: this.reconnectAttempts
  intentionalClose, \* WebSocketManager: this.intentionalClose
  msock,            \* state of every browser WebSocket created so far
  mtimer,           \* connectionTimeout of the connect call of every socket
  mpromise,         \* promise of the connect call of every socket
  nTimers,          \* reconnect timers set by attemptReconnect, not fired yet
  lastDelay,        \* delay of the reconnect timer set last
  notified,         \* observer class the last step called: none, error, close
  lastCall,         \* the method called last by the user of the manager
                    \* (connectAgain: a connect() that returned at its guard)
  lastCode,         \* code of the close event handled last
  intended,         \* closeIntentionally was called and connect was not since
  byIntent,         \* sockets that were this.ws, and not closed yet, when
                    \* closeIntentionally was called
  mcalls,           \* calls of the manager's methods by its user so far
  mthrew,           \* an exception escaped a timer callback of the manager
  msent,            \* what ws.send transmitted so far: <<socket, text>>
  mout,             \* how the last send() or terminate() ended
  marg,             \* the argument of the last send()
  handlers,         \* messageHandlers, errorHandlers, closeHandlers: the
                    \* elements of each Set in insertion order
  invoked,          \* observers called by the event handled last, in order
  threwIn,          \* observers that threw in the event handled last
  buffer,           \* AudioProcessor: this.buffer
  bufferIndex,      \* AudioProcessor: this.bufferIndex
  posted,           \* AudioProcessor: the frames given to port.postMessage
  fed,              \* AudioProcessor: samples given to process so far
  lastBlock,        \* AudioProcessor: inputs[0] of the last process call
  qIn,              \* encoder: the Float32Array given to convertToBase64
  qOut,             \* encoder: the Int16Array, the base64 text, the bytes the
                    \* server decodes and the 16-bit values they stand for
  qStage,           \* encoder: in, encoded (by the browser), sent (by the server)
  startPc,          \* App.handleStartRecording: idle, probe (awaiting the
                    \* fetch of /test and the delay), connect (awaiting
                    \* connect()), connected (connectToWebSocket returned
                    \* true), record (awaiting the audio set-up), finally
  startSock,        \* the socket whose connect() promise is awaited
  nClicks,          \* clicks of the microphone button handled so far
  stopPc,           \* App.handleStopRecording, every call: idle, wait (in
                    \* its loop), stopped (at await stopRecording()), done
  attempts,         \* App.handleStopRecording, every call: let attempts
  waited,           \* App.handleStopRecording, every call: milliseconds
                    \* spent in setTimeout
  capConnected,     \* App.handleStopRecording, every call: the isConnected
                    \* of its closure
  uiConnected,      \* App: the state isConnected
  uiWsConnected,    \* App: the state wsConnected
  uiConnecting,     \* App: the state isConnecting
  greeted,          \* sockets whose connection_established was handled
  uiRecording,      \* useRecorder: the state isRecording
  recRef,           \* useRecorder: isRecordingRef.current
  effRecording,     \* App: the isRecording its effect on the manager last ran for
  nFrames           \* frames handleAudioData gave to sendAudio

vars ==
  <<apiKey, isSessionActive, isTerminating, ws, sock, tasks, draining, pc,
    client, wire, observed, sentUp, upLog, nMsgs, nAudio, nTerm,
    connectCalls, terminated, afterTerm, sendOk, uncaught, unguarded,
    closeCode, clsIn, clsOut, clsDone, clsLog, clsSeen, mws, isConnected, isConnecting,
    reconnectAttempts, intentionalClose, msock, mtimer, mpromise, nTimers,
    lastDelay, notified, lastCall, lastCode, intended, byIntent, mcalls,
    mthrew, msent, mout, marg, handlers, invoked, threwIn, buffer,
    bufferIndex, posted, fed, lastBlock, qIn, qOut, qStage, startPc,
    startSock, nClicks, stopPc, attempts, waited, capConnected, uiConnected,
    uiWsConnected, uiConnecting, greeted, uiRecording, recRef, effRecording,
    nFrames>>

\* the variables of the classifier specification
clsVars == <<clsIn, clsOut, clsDone, clsLog, clsSeen>>

\* the variables of the audio worklet processor
framerVars == <<buffer, bufferIndex, posted, fed, lastBlock>>

\* the variables of the sample encoder
quantVars == <<qIn, qOut, qStage>>

\* the variables of the App component and its recorder
appVars ==
  <<startPc, startSock, nClicks, stopPc, attempts, waited, capConnected,
    uiConnected, uiWsConnected, uiConnecting, greeted, uiRecording, recRef,
    effRecording, nFrames>>

\* the variables of the components that share no state with the session and
\* the manager
pureVars == <<clsVars, framerVars, quantVars, appVars>>

\* the variables of the browser's WebSocketManager
mgrVars ==
  <<mws, isConnected, isConnecting, reconnectAttempts, intentionalClose,
    msock, mtimer, mpromise, nTimers, lastDelay, notified, lastCall, lastCode,
    intended, byIntent, mcalls, mthrew, msent, mout, marg, handlers, invoked,
    threwIn>>

\* what send() adds to the manager's state
sendVars == <<msent, mout, marg>>

\* the variables of the session
sessionVars ==
  <<apiKey, isSessionActive, isTerminating, ws, sock, tasks, draining, pc,
    client, wire, observed, sentUp, upLog, nMsgs, nAudio, nTerm,
    connectCalls, terminated, afterTerm, sendOk, uncaught, unguarded,
    closeCode>>

\* What the user of the manager hands to send(): a string, or an object with
\* one key whose value is a string (quoted by JSON.stringify) or a boolean.
Data(kind, key, quoted, value) ==
  [kind |-> kind, key |-> key, quoted |-> quoted, value |-> value]

NoData == Data("none", "", FALSE, "")
PlainString == Data("string", "", FALSE, "ping")
JsonString == Data("string", "", FALSE, "{\"terminate_session\":true}")
AudioData == Data("object", "audio_data", TRUE, "AAAA")
TerminateData == Data("object", "terminate_session", FALSE, "true")

MgrData == {PlainString, JsonString, AudioData, TerminateData}

\* inputs[0] of a process call: no channel at all, or one channel of len
\* samples
Block(channels, len) == [channels |-> channels, len |-> len]
NoBlock == Block(0, 0)
BlockLens == {0, 128, 3000, 9000}
Blocks == {NoBlock} \cup {Block(1, n) : n \in BlockLens}

\* the i-th sample the microphone delivers; every sample is marked with its
\* position, so that a lost, repeated or misplaced sample shows
Sample(i) == i

\* A floating-point sample is the fraction num/den; den = 0 stands for NaN
\* (num = 0), Infinity (num > 0) and -Infinity (num < 0).
Rat(num, den) == [num |-> num, den |-> den]
NaN == Rat(0, 0)
\* The samples tried: the 65536ths around -1.0, 0 and 1.0, the small whole
\* numbers and thirds, NaN and the infinities.
QuantNums == {x + j : x \in {-65536, 0, 65536}, j \in (-MaxQuantStep)..MaxQuantStep}
QuantSamples ==
  {Rat(n, 65536) : n \in QuantNums}
    \cup {Rat(n, d) : n \in (-MaxQuantStep - 1)..(MaxQuantStep + 1), d \in {1, 3}}
    \cup {NaN, Rat(1, 0), Rat(-1, 0)}

\* the Float32Arrays given to convertToBase64
RECURSIVE SeqsOver(_, _)
SeqsOver(S, n) ==
  IF n = 0 THEN {<<>>}
  ELSE LET shorter == SeqsOver(S, n - 1)
       IN shorter \cup {Append(q, x) : q \in {r \in shorter : Len(r) = n - 1}, x \in S}
QuantInputs == SeqsOver(QuantSamples, MaxQuantLen) \ {<<>>}

\* the base64 alphabet
Base64Chars ==
  <<
    "A", "B", "C", "D", "E", "F", "G", "H", "I", "J", "K", "L", "M", "N", "O", "P",
    "Q", "R", "S", "T", "U", "V", "W", "X", "Y", "Z", "a", "b", "c", "d", "e", "f",
    "g", "h", "i", "j", "k", "l", "m", "n", "o", "p", "q", "r", "s", "t", "u", "v",
    "w", "x", "y", "z", "0", "1", "2", "3", "4", "5", "6", "7", "8", "9", "+", "/"
  >>

\* the observers (functions) the user may register
Observers == 1..MaxObservers

\* the three classes of observers
ObserverClasses == {"message", "error", "close"}

\* a frame the browser socket receives: the text is JSON or it is not
Frame(json, body) == [json |-> json, body |-> body]
MgrFrames == {Frame(TRUE, "transcript"), Frame(FALSE, "garbage")}

\* ------------------------------------------------------------- helpers
Created == {s \in Sockets : sock[s] # "none"}
Live == {s \in Sockets : sock[s] \in {"connecting", "open"}}

\* the server's end of the client channel is in readyState OPEN
ClientOpen == client = "open" /\ sendOk

\* client.send(JSON.stringify(m)) on the server's end of the client channel:
\* on a socket that is not OPEN it returns normally and transmits nothing
Send(w, m) == IF ClientOpen THEN Append(w, m) ELSE w

\* =================================================== AssemblyAIStreaming

\* what the try block of connect throws before a socket exists: the Error of
\* the missing-key check, or the TypeError of new WebSocket for a key its
\* Authorization header cannot carry; "" when nothing is thrown
connectThrows(key) ==
  CASE key = KeyMissing -> "AssemblyAI API key is required"
    [] key = KeyBadHeader -> "Invalid character in header content [\"Authorization\"]"
    [] OTHER -> ""

\* connect without its try/catch: the thrown Error rejects the promise
connect_Rethrow(key, w, s) ==
  IF connectThrows(key) # ""
    THEN [ws |-> w, sock |-> s, onError |-> FALSE, error |-> "",
          rejected |-> TRUE]
    ELSE [ws |-> Cardinality({x \in Sockets : s[x] # "none"}) + 1,
          sock |-> [s EXCEPT ![Cardinality({x \in Sockets : s[x] # "none"}) + 1] = "connecting"],
          onError |-> FALSE, error |-> "", rejected |-> FALSE]

\* AssemblyAIStreaming.connect: an Error thrown in the try block (no
\* credential, or a credential new WebSocket refuses) is caught and handed
\* to onError, this.ws is left alone and the promise still resolves;
\* otherwise a new WebSocket (readyState CONNECTING) replaces this.ws.
\* Result: the new this.ws, the sockets, whether onError ran and with which
\* error.message, and whether the promise rejects.
connect(key, w, s) ==
  IF connectThrows(key) # ""
    THEN [ws |-> w, sock |-> s, onError |-> TRUE,
          error |-> connectThrows(key), rejected |-> FALSE]
    ELSE [ws |-> Cardinality({x \in Sockets : s[x] # "none"}) + 1,
          sock |-> [s EXCEPT ![Cardinality({x \in Sockets : s[x] # "none"}) + 1] = "connecting"],
          onError |-> FALSE, error |-> "", rejected |-> FALSE]

\* terminate without the null check of this.ws: reading readyState of null
\* throws a TypeError
terminate_NoNullCheck(w, s) ==
  [ws |-> IF w = NoSocket THEN w ELSE NoSocket,
   sock |-> IF w # NoSocket /\ readyState(s[w]) = OPEN
              THEN [s EXCEPT ![w] = "closing"]
              ELSE s,
   threw |-> w = NoSocket]

\* AssemblyAIStreaming.terminate: closes this.ws only if it is OPEN (an
\* exception of close() is swallowed), then drops the reference.
terminate(w, s) ==
  [ws |-> NoSocket,
   sock |-> IF w # NoSocket /\ readyState(s[w]) = OPEN
              THEN [s EXCEPT ![w] = "closing"]
              ELSE s,
   threw |-> FALSE]

\* AssemblyAIStreaming.sendAudio: transmits only on an OPEN this.ws, throws
\* "AssemblyAI WebSocket not connected" otherwise.
sendAudio(w, s) == w # NoSocket /\ readyState(s[w]) = OPEN

\* hasProperFormatting without the test for a comma
hasProperFormatting_NoComma(t) ==
  \E i \in DOMAIN t : t[i] \in {".", "!", "?"} \/ t[i] \in UpperCase

\* hasProperFormatting of the upstream message handler
hasProperFormatting(t) ==
  \E i \in DOMAIN t : t[i] \in Punctuation \/ t[i] \in UpperCase

\* the message handler without its two message_type branches
Classify_TurnsOnly(p) ==
  IF ~p.json THEN <<>>
  ELSE IF p.type = "Turn" /\ p.transcript # <<>>
    THEN IF ~p.end_of_turn
      THEN <<TranscriptMsg(p.transcript, TRUE, FALSE)>>
      ELSE IF \E i \in DOMAIN p.transcript :
                p.transcript[i] \in Punctuation \cup UpperCase
        THEN <<TranscriptMsg(p.transcript, FALSE, TRUE)>>
        ELSE <<>>
  ELSE <<>>

\* The upstream 'message' handler: the messages it hands to onMessage for one
\* raw payload (a sequence of length 0 or 1).
Classify(p) ==
  IF ~p.json THEN <<>>
  ELSE IF p.type = "Turn"
    THEN IF p.transcript # <<>>
      THEN IF ~p.end_of_turn
        THEN <<TranscriptMsg(p.transcript, TRUE, FALSE)>>
        ELSE IF hasProperFormatting(p.transcript)
          THEN <<TranscriptMsg(p.transcript, FALSE, TRUE)>>
          ELSE <<>>
      ELSE <<>>
  ELSE IF p.message_type = "SessionBegins"
    THEN <<LifecycleMsg("session_begins", "Session started")>>
  ELSE IF p.message_type = "SessionTerminated"
    THEN <<LifecycleMsg("session_terminated", "Session terminated")>>
  ELSE <<>>

\* the message handler reporting a payload that does not parse to onError
HandlePayload_ReportParseError(p) ==
  [events |-> Classify(p), onError |-> ~p.json, threw |-> FALSE]

\* this.ws.on("message") as a whole: the onMessage calls it makes, whether it
\* calls onError, and whether an exception leaves it (the catch of lines
\* 76-78 swallows every exception of JSON.parse and of the branches)
HandlePayload(p) ==
  [events |-> Classify(p), onError |-> FALSE, threw |-> FALSE]

\* ========================================================= Session Proxy

\* onMessage forwarding transcripts only
onMessage_TranscriptsOnly(w, ms) ==
  IF ms = <<>> \/ ms[1].text = <<>> THEN w ELSE Send(w, ms[1])

\* onMessage suppressing a message equal to the one forwarded last
onMessage_Dedup(w, ms) ==
  IF ms = <<>> \/ (observed # <<>> /\ observed[Len(observed)] = ms[1])
    THEN w
    ELSE Send(w, ms[1])

\* onMessage of connectToAssemblyAI: forwards every classified message
onMessage(w, ms) == IF ms = <<>> THEN w ELSE Send(w, ms[1])

\* onClose with the generic text for every close code
CloseMsg_Generic(code) == ErrorMsg("AssemblyAI connection closed", code)

\* the message onClose sends for a close code
CloseMsg(code) ==
  IF code = CodeInvalidKey THEN ErrorMsg("Invalid AssemblyAI API key", 0)
  ELSE IF code = CodeDeprecated THEN ErrorMsg("AssemblyAI model deprecated", 0)
  ELSE ErrorMsg("AssemblyAI connection closed", code)

\* the guard of the audio_data branch and of connectToAssemblyAI
mayConnect(active, terminating) == ~active /\ ~terminating

\* the forward condition of the audio_data branch
mayForward(active, terminating, w, s) ==
  active /\ ~terminating /\ w # NoSocket /\ readyState(s[w]) = OPEN

\* the audio_data branch transmitting on any this.ws, open or not
ForwardAudio_NoOpenCheck(frame, active, terminating, w, s) ==
  IF active /\ ~terminating /\ w # NoSocket
    THEN Append(sentUp, <<frame, w>>)
    ELSE sentUp

\* the audio_data branch keeping the newest frame first
ForwardAudio_NewestFirst(frame, active, terminating, w, s) ==
  IF active /\ ~terminating /\ w # NoSocket /\ readyState(s[w]) = OPEN
    THEN <<(<<frame, w>>)>> \o sentUp
    ELSE sentUp

\* the audio_data branch from the forward check on
ForwardAudio(frame, active, terminating, w, s) ==
  IF mayForward(active, terminating, w, s) /\ sendAudio(w, s)
    THEN Append(sentUp, <<frame, w>>)
    ELSE sentUp

\* No handler is running or suspended: the next I/O callback may run.
ServerIdle == pc = "idle" /\ tasks = <<>>

\* A client message may be dispatched: at a fresh callback, or from the stack
\* that dispatched the messages of the handlers now suspended.
MayReceive ==
  /\ client = "open"
  /\ pc = "idle"
  /\ ~draining
  /\ nMsgs < MaxClientMsgs

\* client.on("message"), audio_data, while the proxy may connect: the handler
\* runs into connectToAssemblyAI, calls assemblyAI.connect and is suspended.
ClientAudioConnect ==
  /\ MayReceive
  /\ mayConnect(isSessionActive, isTerminating)
  /\ Len(tasks) < MaxSuspended
  /\ apiKey = KeyValid => Cardinality(Created) < MaxSockets
  /\ LET r == connect(apiKey, ws, sock) IN
       /\ ws' = r.ws
       /\ sock' = r.sock
       /\ isSessionActive' = IF r.onError THEN FALSE ELSE isSessionActive
       /\ wire' = IF r.onError
                    THEN Send(wire, ErrorMsg("AssemblyAI connection error: "
                                               \o r.error, 0))
                    ELSE wire
       /\ tasks' = Append(tasks, [k |-> "inner", frame |-> nAudio + 1,
                                  rejected |-> r.rejected,
                                  late |-> ~sendOk])
  /\ connectCalls' = connectCalls + 1
  /\ nMsgs' = nMsgs + 1
  /\ nAudio' = nAudio + 1
  /\ afterTerm' = FALSE
  /\ UNCHANGED <<pureVars, mgrVars, sendOk, uncaught, unguarded, closeCode, apiKey, isTerminating, draining, pc, client, observed,
                 sentUp, upLog, nTerm, terminated>>

\* client.on("message"), audio_data, otherwise: forward or drop, no await
ClientAudioForward ==
  /\ MayReceive
  /\ ~mayConnect(isSessionActive, isTerminating)
  /\ sentUp' = ForwardAudio(nAudio + 1, isSessionActive, isTerminating, ws, sock)
  /\ nMsgs' = nMsgs + 1
  /\ nAudio' = nAudio + 1
  /\ afterTerm' = FALSE
  /\ UNCHANGED <<pureVars, mgrVars, sendOk, uncaught, unguarded, closeCode, apiKey, isSessionActive, isTerminating, ws, sock, tasks,
                 draining, pc, client, wire, observed, upLog, nTerm,
                 connectCalls, terminated>>

\* connectToAssemblyAI after await assemblyAI.connect(...): the rest of the
\* try block, or the catch block if the promise rejected
ResumeConnect ==
  /\ pc = "idle"
  /\ tasks # <<>>
  /\ Head(tasks).k = "inner"
  /\ isSessionActive' = ~Head(tasks).rejected
  /\ wire' = Send(wire, IF Head(tasks).rejected THEN AssemblyAIError
                                                ELSE AssemblyAIConnected)
  /\ tasks' = Append(Tail(tasks), [k |-> "outer", frame |-> Head(tasks).frame,
                                   rejected |-> FALSE,
                                   late |-> Head(tasks).late])
  /\ draining' = TRUE
  /\ UNCHANGED <<pureVars, mgrVars, sendOk, uncaught, unguarded, closeCode, apiKey, isTerminating, ws, sock, pc, client, observed,
                 sentUp, upLog, nMsgs, nAudio, nTerm, connectCalls,
                 terminated, afterTerm>>

\* the message handler after await connectToAssemblyAI()
ResumeHandler ==
  /\ pc = "idle"
  /\ tasks # <<>>
  /\ Head(tasks).k = "outer"
  /\ sentUp' = ForwardAudio(Head(tasks).frame, isSessionActive, isTerminating, ws, sock)
  /\ tasks' = Tail(tasks)
  /\ draining' = (Tail(tasks) # <<>>)
  /\ UNCHANGED <<pureVars, mgrVars, sendOk, uncaught, unguarded, closeCode, apiKey, isSessionActive, isTerminating, ws, sock, pc, client,
                 wire, observed, upLog, nMsgs, nAudio, nTerm, connectCalls,
                 terminated, afterTerm>>

\* the terminate_session branch raising isTerminating only after the teardown
TerminateBegin_FlagLate ==
  /\ MayReceive
  /\ isSessionActive' = FALSE
  /\ pc' = "terminate"
  /\ nMsgs' = nMsgs + 1
  /\ UNCHANGED <<pureVars, mgrVars, sendOk, uncaught, unguarded, closeCode, apiKey, isTerminating, ws, sock, tasks, draining, client,
                 wire, observed, sentUp, upLog, nAudio, nTerm, connectCalls,
                 terminated, afterTerm>>

\* client.on("message"), terminate_session: the flags are set first
TerminateBegin ==
  /\ MayReceive
  /\ isSessionActive' = FALSE
  /\ isTerminating' = TRUE
  /\ pc' = "terminate"
  /\ nMsgs' = nMsgs + 1
  /\ UNCHANGED <<pureVars, mgrVars, sendOk, uncaught, unguarded, closeCode, apiKey, ws, sock, tasks, draining, client, wire, observed,
                 sentUp, upLog, nAudio, nTerm, connectCalls, terminated,
                 afterTerm>>

\* ... then the teardown, the confirmation and the finally block
TerminateEnd ==
  /\ pc = "terminate"
  /\ LET r == terminate(ws, sock) IN
       /\ ws' = r.ws
       /\ sock' = r.sock
       /\ wire' = Send(wire, IF r.threw THEN TerminationError
                                        ELSE SessionTerminatedConfirm)
  /\ isTerminating' = FALSE
  /\ pc' = "idle"
  /\ nTerm' = nTerm + 1
  /\ terminated' = IF ws # NoSocket THEN terminated \cup {ws} ELSE terminated
  /\ afterTerm' = TRUE
  /\ UNCHANGED <<pureVars, mgrVars, sendOk, uncaught, unguarded, closeCode, apiKey, isSessionActive, tasks, draining, client, observed,
                 sentUp, upLog, nMsgs, nAudio, connectCalls>>

\* the catch block of the message handler also dropping the session flag
ClientMalformed_Reset ==
  /\ MayReceive
  /\ wire' = Send(wire, InvalidMessageFormat)
  /\ unguarded' = (unguarded \/ ~ClientOpen)
  /\ isSessionActive' = FALSE
  /\ nMsgs' = nMsgs + 1
  /\ UNCHANGED <<pureVars, mgrVars, sendOk, uncaught, closeCode, apiKey, isTerminating, ws, sock,
                 tasks, draining, pc, client, observed, sentUp, upLog, nAudio,
                 nTerm, connectCalls, terminated, afterTerm>>

\* client.on("message") with a message JSON.parse rejects: the catch block
\* (line 413) calls client.send outside every try.  The call returns normally
\* whatever the state of the channel; on a channel that has left OPEN it
\* fails (nothing is transmitted) and no catch block stands behind it.
ClientMalformed ==
  /\ MayReceive
  /\ wire' = Send(wire, InvalidMessageFormat)
  /\ unguarded' = (unguarded \/ ~ClientOpen)
  /\ nMsgs' = nMsgs + 1
  /\ UNCHANGED <<pureVars, mgrVars, sendOk, uncaught, closeCode, apiKey, isSessionActive, isTerminating, ws, sock, tasks,
                 draining, pc, client, observed, sentUp, upLog, nAudio, nTerm,
                 connectCalls, terminated, afterTerm>>

\* the body shared by client.on("close") and client.on("error"); the socket
\* has left OPEN when either event is emitted
ClientGone(to) ==
  /\ pc = "idle"
  /\ IF isSessionActive
       THEN /\ ws' = terminate(ws, sock).ws
            /\ sock' = terminate(ws, sock).sock
            /\ isSessionActive' = FALSE
       ELSE UNCHANGED <<ws, sock, isSessionActive>>
  /\ client' = to
  /\ sendOk' = FALSE
  /\ wire' = <<>>
  /\ closeCode' = [s \in Sockets |-> NoCode]
  /\ UNCHANGED <<pureVars, mgrVars, uncaught, unguarded, apiKey, isTerminating, tasks, draining, pc, observed, sentUp,
                 upLog, nMsgs, nAudio, nTerm, connectCalls, terminated,
                 afterTerm>>

\* client.on("error"): ws emits 'error' from the callback that reads the
\* client's data, so handlers of messages dispatched by the same callback may
\* still be suspended; 'close' comes later
ClientError ==
  /\ client = "open"
  /\ ~draining
  /\ ClientGone("errored")

\* every suspended handler belongs to a message that was dispatched after the
\* client channel had left OPEN, and none has resumed
LateOnly == ~draining /\ \A i \in 1..Len(tasks) : tasks[i].late

\* client.on("close"): emitted from a callback of its own, when no promise
\* job is pending.  A message left unread when the connection ends is
\* dispatched by the callback that ends it (the channel has left OPEN by
\* then), and 'close' is emitted on the next tick: before the promise jobs of
\* the handlers that callback suspended.
ClientClose ==
  /\ client \in {"open", "errored"}
  /\ tasks = <<>> \/ LateOnly
  /\ ClientGone("closed")

\* ====================================================== upstream events

\* this.ws.on("open")
UpOpen(s) ==
  /\ ServerIdle
  /\ sock[s] = "connecting"
  /\ sock' = [sock EXCEPT ![s] = "open"]
  /\ UNCHANGED <<pureVars, mgrVars, sendOk, uncaught, unguarded, closeCode, apiKey, isSessionActive, isTerminating, ws, tasks, draining,
                 pc, client, wire, observed, sentUp, upLog, nMsgs, nAudio,
                 nTerm, connectCalls, terminated, afterTerm>>

\* this.ws.on("message"): classify, then onMessage
UpMessage(s, p) ==
  /\ ServerIdle
  /\ sock[s] \in {"open", "closing"}
  /\ Len(upLog) < MaxUpMsgs
  /\ LET r == HandlePayload(p) IN
       /\ wire' = IF r.onError THEN Send(wire, ConnectionErrorMsg)
                                ELSE onMessage(wire, r.events)
       /\ isSessionActive' = IF r.onError THEN FALSE ELSE isSessionActive
       /\ uncaught' = (uncaught \/ r.threw)
  /\ upLog' = IF ClientOpen THEN Append(upLog, [sock |-> s, p |-> p]) ELSE upLog
  /\ UNCHANGED <<pureVars, mgrVars, sendOk, unguarded, closeCode, apiKey, isTerminating, ws, sock,
                 tasks, draining, pc, client, observed, sentUp, nMsgs, nAudio,
                 nTerm, connectCalls, terminated, afterTerm>>

\* this.ws.on("error") and onError of connectToAssemblyAI
UpError(s) ==
  /\ ServerIdle
  /\ sock[s] \in {"connecting", "open", "closing"}
  /\ sock' = [sock EXCEPT ![s] = "errored"]
  /\ isSessionActive' = FALSE
  /\ wire' = Send(wire, ConnectionErrorMsg)
  /\ UNCHANGED <<pureVars, mgrVars, sendOk, uncaught, unguarded, closeCode, apiKey, isTerminating, ws, tasks, draining, pc, client,
                 observed, sentUp, upLog, nMsgs, nAudio, nTerm, connectCalls,
                 terminated, afterTerm>>

\* The Close frame of the upstream is read on socket s: ws answers it and the
\* socket is CLOSING (readyState 2) from now on; 'close' is emitted later,
\* once the connection has ended.  No handler of the proxy runs.
UpPeerClose(s) ==
  /\ ServerIdle
  /\ sock[s] = "open"
  /\ sock' = [sock EXCEPT ![s] = "closing"]
  /\ UNCHANGED <<pureVars, mgrVars, sendOk, uncaught, unguarded, closeCode,
                 apiKey, isSessionActive, isTerminating, ws, tasks, draining,
                 pc, client, wire, observed, sentUp, upLog, nMsgs, nAudio,
                 nTerm, connectCalls, terminated, afterTerm>>

\* onClose leaving isSessionActive as it is
UpClose_KeepActive(s, code) ==
  /\ ServerIdle
  /\ sock[s] \in {"open", "closing", "errored"}
  /\ sock' = [sock EXCEPT ![s] = "closed"]
  /\ wire' = Send(wire, CloseMsg(code))
  /\ closeCode' = IF ClientOpen THEN [closeCode EXCEPT ![s] = code] ELSE closeCode
  /\ UNCHANGED <<pureVars, mgrVars, sendOk, uncaught, unguarded, apiKey, isSessionActive,
                 isTerminating, ws, tasks, draining, pc, client, observed,
                 sentUp, upLog, nMsgs, nAudio, nTerm, connectCalls, terminated,
                 afterTerm>>

\* this.ws.on("close") and onClose of connectToAssemblyAI
UpClose(s, code) ==
  /\ ServerIdle
  /\ sock[s] \in {"open", "closing", "errored"}
  /\ sock' = [sock EXCEPT ![s] = "closed"]
  /\ isSessionActive' = FALSE
  /\ wire' = Send(wire, CloseMsg(code))
  /\ closeCode' = IF ClientOpen THEN [closeCode EXCEPT ![s] = code] ELSE closeCode
  /\ UNCHANGED <<pureVars, mgrVars, sendOk, uncaught, unguarded, apiKey, isTerminating, ws, tasks, draining, pc, client,
                 observed, sentUp, upLog, nMsgs, nAudio, nTerm, connectCalls,
                 terminated, afterTerm>>

\* The server's end of the client channel leaves OPEN (a close frame was
\* read, or the connection ended) while its 'close' event is still to come:
\* from now on client.send transmits nothing.  It happens in the callback that
\* reads the client's data, possibly after that callback dispatched messages.
ClientSendBreaks ==
  /\ client = "open"
  /\ sendOk
  /\ pc = "idle"
  /\ ~draining
  /\ sendOk' = FALSE
  /\ closeCode' = [s \in Sockets |-> NoCode]
  /\ UNCHANGED <<pureVars, mgrVars, uncaught, unguarded, apiKey, isSessionActive,
                 isTerminating, ws, sock, tasks, draining, pc, client, wire,
                 observed, sentUp, upLog, nMsgs, nAudio, nTerm, connectCalls,
                 terminated, afterTerm>>

\* ============================================= browser: WebSocketManager

\* ws.onmessage: JSON.parse, then every message handler is called.  The page
\* handles a frame in a task of its own, at any time after the server sent it:
\* while the page is busy the server goes on and frames queue up in wire.
ClientOnMessage ==
  /\ wire # <<>>
  /\ observed' = Append(observed, Head(wire))
  /\ wire' = Tail(wire)
  /\ UNCHANGED <<pureVars, mgrVars, sendOk, uncaught, unguarded, closeCode, apiKey, isSessionActive, isTerminating, ws, sock, tasks,
                 draining, pc, client, sentUp, upLog, nMsgs, nAudio, nTerm,
                 connectCalls, terminated, afterTerm>>

\* ------------------------------- WebSocketManager: connection life cycle
\* A browser socket is "none" (not created yet), "connecting", "open",
\* "aborted" (close() was called while it was connecting: 'error' and 'close'
\* are to come), "closing" (close() was called while it was open, or the
\* Close frame of the server was read: readyState CLOSING), "failed"
\* ('error' was dispatched, 'close' is to come) or "closed".

MgrCreated == {s \in MgrSockets : msock[s] # "none"}
MgrLive == {s \in MgrSockets : msock[s] \in {"connecting", "open"}}

\* Math.pow(2, n)
RECURSIVE Pow2(_)
Pow2(n) == IF n <= 0 THEN 1 ELSE 2 * Pow2(n - 1)

\* the delay of attemptReconnect computed without the "- 1"
Delay_NoMinusOne(count) == reconnectDelay * Pow2(count)

\* the delay of attemptReconnect, from the counter after its increment
Delay(count) == reconnectDelay * Pow2(count - 1)

\* JSON.stringify of an object with one key
Stringify(d) ==
  "{\"" \o d.key \o "\":"
    \o (IF d.quoted THEN "\"" \o d.value \o "\"" ELSE d.value) \o "}"

\* the text send() hands to ws.send always stringified
Serialize_AlwaysStringify(d) ==
  IF d.kind = "string" THEN "\"" \o d.value \o "\"" ELSE Stringify(d)

\* typeof data === "string" ? data : JSON.stringify(data)
Serialize(d) == IF d.kind = "string" THEN d.value ELSE Stringify(d)

\* this.ws && this.ws.readyState === WebSocket.OPEN
MgrIsOpen == mws # NoSocket /\ msock[mws] = "open"

\* the elements of a Set kept in insertion order
Range(seq) == {seq[i] : i \in 1..Len(seq)}
SetAdd(seq, h) == IF h \in Range(seq) THEN seq ELSE Append(seq, h)
SetDelete(seq, h) == SelectSeq(seq, LAMBDA x : x # h)

\* a step that dispatches no event to the observers
NoDispatch ==
  /\ notified' = "none"
  /\ invoked' = <<>>
  /\ threwIn' = {}
  /\ UNCHANGED handlers

\* the observers a forEach without try/catch would reach: those up to the
\* first one that throws
RECURSIVE UpToFirstThrow(_, _)
UpToFirstThrow(seq, th) ==
  IF seq = <<>> THEN <<>>
  ELSE IF Head(seq) \in th THEN <<Head(seq)>>
  ELSE <<Head(seq)>> \o UpToFirstThrow(Tail(seq), th)

\* the observers of a class called without the try/catch around each call
Dispatch_NoCatch(class) ==
  /\ notified' = class
  /\ \E th \in SUBSET Range(handlers[class]) :
       /\ threwIn' = th
       /\ invoked' = UpToFirstThrow(handlers[class], th)
  /\ UNCHANGED handlers

\* this.<class>Handlers.forEach(handler => { try { handler(x) } catch {} }):
\* every element of the Set is called once, in insertion order, whichever of
\* them throw
Dispatch(class) ==
  /\ notified' = class
  /\ \E th \in SUBSET Range(handlers[class]) :
       /\ threwIn' = th
       /\ invoked' = handlers[class]
  /\ UNCHANGED handlers

\* settle the promise of the connect call of socket s (a settled promise
\* stays as it is)
Settle(pr, s, how) == [pr EXCEPT ![s] = IF @ = "pending" THEN how ELSE @]

\* clearTimeout(connectionTimeout) in a handler of socket s
Clear(tm, s) == [tm EXCEPT ![s] = IF @ = "pending" THEN "cleared" ELSE @]

\* connect() without the guard of lines 49-51
DoConnect_NoGuard ==
  LET s == Cardinality(MgrCreated) + 1 IN
  /\ s \in MgrSockets
  /\ mws' = s
  /\ isConnecting' = TRUE
  /\ msock' = [msock EXCEPT ![s] = "connecting"]
  /\ mtimer' = [mtimer EXCEPT ![s] = "pending"]
  /\ mpromise' = [mpromise EXCEPT ![s] = "pending"]

\* connect(): nothing while isConnecting or isConnected, otherwise a new
\* WebSocket replaces this.ws and its connectionTimeout is set
DoConnect ==
  IF isConnecting \/ isConnected
    THEN UNCHANGED <<mws, isConnecting, msock, mtimer, mpromise>>
    ELSE LET s == Cardinality(MgrCreated) + 1 IN
         /\ mws' = s
         /\ isConnecting' = TRUE
         /\ msock' = [msock EXCEPT ![s] = "connecting"]
         /\ mtimer' = [mtimer EXCEPT ![s] = "pending"]
         /\ mpromise' = [mpromise EXCEPT ![s] = "pending"]

\* a connect() that creates a socket needs one within the bound
MayCreate ==
  isConnecting \/ isConnected \/ Cardinality(MgrCreated) < Cardinality(MgrSockets)

\* close(): this.ws.close() and this.ws = null, both flags cleared
DoClose ==
  /\ msock' = IF mws = NoSocket THEN msock
              ELSE [msock EXCEPT ![mws] =
                      CASE @ = "connecting" -> "aborted"
                        [] @ = "open" -> "closing"
                        [] OTHER -> @]
  /\ mws' = NoSocket
  /\ isConnected' = FALSE
  /\ isConnecting' = FALSE

\* the user calls connect()
MgrConnect ==
  /\ mcalls < MaxMgrCalls
  /\ MayCreate
  /\ DoConnect
  /\ mcalls' = mcalls + 1
  /\ lastCall' = IF isConnecting \/ isConnected THEN "connectAgain" ELSE "connect"
  /\ intended' = FALSE
  /\ NoDispatch
  /\ UNCHANGED <<pureVars, sessionVars, sendVars, isConnected, reconnectAttempts,
                 intentionalClose, nTimers, lastDelay, lastCode, byIntent,
                 mthrew>>

\* the user calls close()
MgrClose ==
  /\ mcalls < MaxMgrCalls
  /\ DoClose
  /\ mcalls' = mcalls + 1
  /\ lastCall' = "close"
  /\ NoDispatch
  /\ UNCHANGED <<pureVars, sessionVars, sendVars, reconnectAttempts, intentionalClose,
                 mtimer, mpromise, nTimers, lastDelay, lastCode, intended,
                 byIntent, mthrew>>

\* the user calls closeIntentionally()
MgrCloseIntentionally ==
  /\ mcalls < MaxMgrCalls
  /\ intentionalClose' = TRUE
  /\ DoClose
  /\ byIntent' = IF mws # NoSocket /\ msock[mws] # "closed"
                   THEN byIntent \cup {mws}
                   ELSE byIntent
  /\ intended' = TRUE
  /\ mcalls' = mcalls + 1
  /\ lastCall' = "closeIntentionally"
  /\ NoDispatch
  /\ UNCHANGED <<pureVars, sessionVars, sendVars, reconnectAttempts, mtimer, mpromise,
                 nTimers, lastDelay, lastCode, mthrew>>

\* a timer set by attemptReconnect fires: connect(), a rejection is swallowed
ReconnectTimer ==
  /\ nTimers > 0
  /\ MayCreate
  /\ DoConnect
  /\ nTimers' = nTimers - 1
  /\ NoDispatch
  /\ UNCHANGED <<pureVars, sessionVars, sendVars, isConnected, reconnectAttempts,
                 intentionalClose, lastDelay, lastCall, lastCode, intended,
                 byIntent, mcalls, mthrew>>

\* the connectionTimeout of the connect call that created socket s fires; it
\* reads this.ws, whatever that is by then (null: a TypeError)
ConnTimeout(s) ==
  /\ mtimer[s] = "pending"
  /\ mtimer' = [mtimer EXCEPT ![s] = "fired"]
  /\ IF mws = NoSocket
       THEN /\ mthrew' = TRUE
            /\ UNCHANGED <<isConnecting, mpromise>>
       ELSE IF msock[mws] # "open"
         THEN /\ isConnecting' = FALSE
              /\ mpromise' = Settle(mpromise, s, "rejected")
              /\ UNCHANGED mthrew
         ELSE UNCHANGED <<isConnecting, mpromise, mthrew>>
  /\ NoDispatch
  /\ UNCHANGED <<pureVars, sessionVars, sendVars, mws, isConnected, reconnectAttempts,
                 intentionalClose, msock, nTimers, lastDelay, lastCall,
                 lastCode, intended, byIntent, mcalls>>

\* ws.onopen of socket s
MgrOpen(s) ==
  /\ msock[s] = "connecting"
  /\ msock' = [msock EXCEPT ![s] = "open"]
  /\ mtimer' = Clear(mtimer, s)
  /\ isConnected' = TRUE
  /\ isConnecting' = FALSE
  /\ reconnectAttempts' = 0
  /\ mpromise' = Settle(mpromise, s, "resolved")
  /\ NoDispatch
  /\ UNCHANGED <<pureVars, sessionVars, sendVars, mws, intentionalClose, nTimers,
                 lastDelay, lastCall, lastCode, intended, byIntent, mcalls,
                 mthrew>>

\* The browser reads the Close frame of the server on socket s: readyState is
\* CLOSING from now on, and 'close' is dispatched by a later task.  No code of
\* the manager runs: this.ws and isConnected stay as they are.
MgrPeerClose(s) ==
  /\ msock[s] = "open"
  /\ msock' = [msock EXCEPT ![s] = "closing"]
  /\ UNCHANGED <<pureVars, sessionVars, sendVars, mws, isConnected,
                 isConnecting, reconnectAttempts, intentionalClose, mtimer,
                 mpromise, nTimers, lastDelay, notified, lastCall, lastCode,
                 intended, byIntent, mcalls, mthrew, handlers, invoked,
                 threwIn>>

\* ws.onerror of socket s, a socket that is connecting, open, or on its way
\* to CLOSED ('error' is then followed by 'close'): what it does to the
\* manager
onerror(s) ==
  /\ msock[s] \in {"connecting", "open", "aborted", "closing"}
  /\ msock' = [msock EXCEPT ![s] = "failed"]
  /\ mtimer' = Clear(mtimer, s)
  /\ isConnected' = FALSE
  /\ isConnecting' = FALSE
  /\ Dispatch("error")
  /\ mpromise' = Settle(mpromise, s, "rejected")
  /\ UNCHANGED <<sendVars, mws, reconnectAttempts, intentionalClose, nTimers,
                 lastDelay, lastCall, lastCode, intended, byIntent, mcalls,
                 mthrew>>

\* the 'error' event of socket s
MgrError(s) ==
  /\ onerror(s)
  /\ UNCHANGED <<pureVars, sessionVars>>

\* the reconnect condition without the attempt ceiling
Reconnects_NoCeiling(code) == code # CodeNormal /\ ~intentionalClose

\* the condition under which ws.onclose calls attemptReconnect, and
\* attemptReconnect goes on to set its timer
Reconnects(code) ==
  /\ code # CodeNormal
  /\ reconnectAttempts < maxReconnectAttempts
  /\ ~intentionalClose

\* ws.onclose of socket s with attemptReconnect: what it does to the manager
onclose(s, code) ==
  /\ msock[s] \in {"open", "closing", "failed"}
  /\ msock' = [msock EXCEPT ![s] = "closed"]
  /\ mtimer' = Clear(mtimer, s)
  /\ isConnected' = FALSE
  /\ isConnecting' = FALSE
  /\ Dispatch("close")
  /\ lastCode' = code
  /\ IF Reconnects(code)
       THEN /\ reconnectAttempts' = reconnectAttempts + 1
            /\ lastDelay' = Delay(reconnectAttempts + 1)
            /\ nTimers' = nTimers + 1
       ELSE UNCHANGED <<reconnectAttempts, lastDelay, nTimers>>
  /\ intentionalClose' = FALSE
  /\ UNCHANGED <<sendVars, mws, mpromise, lastCall, intended, byIntent, mcalls,
                 mthrew>>

\* the 'close' event of socket s
MgrCloseEvent(s, code) ==
  /\ onclose(s, code)
  /\ UNCHANGED <<pureVars, sessionVars>>

\* the smaller of two integers
Min(a, b) == IF a <= b THEN a ELSE b

\* x * 32768 (the fraction is reduced where it can be)
Scale(x) ==
  IF x.den # 0 /\ x.den % 32768 = 0
    THEN Rat(x.num, x.den \div 32768)
    ELSE Rat(x.num * 32768, x.den)

\* a < b for two numbers that are not NaN
Less(a, b) ==
  IF a.den = 0 /\ b.den = 0 THEN a.num < b.num
  ELSE a.num * (IF b.den = 0 THEN 0 ELSE b.den)
         < b.num * (IF a.den = 0 THEN 0 ELSE a.den)

\* Math.min and Math.max: NaN if an argument is NaN
MathMin(a, b) == IF a = NaN \/ b = NaN THEN NaN ELSE IF Less(b, a) THEN b ELSE a
MathMax(a, b) == IF a = NaN \/ b = NaN THEN NaN ELSE IF Less(a, b) THEN b ELSE a

\* the conversion of a number stored into an Int16Array: NaN and the
\* infinities give 0, anything else is cut towards zero and wrapped to 16 bits
ToInt16(x) ==
  IF x.den = 0 THEN 0
  ELSE LET cut == IF x.num >= 0 THEN x.num \div x.den ELSE -((-x.num) \div x.den)
           m == cut % 65536
       IN IF m >= 32768 THEN m - 65536 ELSE m

\* the sample scaled and stored without the clamp
Quantize_NoClamp(x) == ToInt16(Scale(x))

\* int16Array[i] = Math.max(-32768, Math.min(32767, float32Array[i] * 32768))
Quantize(x) ==
  ToInt16(MathMax(Rat(-32768, 1), MathMin(Rat(32767, 1), Scale(x))))

\* new Uint8Array(int16Array.buffer): two bytes for every value, low byte first
RECURSIVE BytesOf(_)
BytesOf(ints) ==
  IF ints = <<>> THEN <<>>
  ELSE <<Head(ints) % 256, (Head(ints) % 65536) \div 256>> \o BytesOf(Tail(ints))

\* btoa: three bytes give four characters, the last group is padded with "="
RECURSIVE Btoa(_)
Btoa(bytes) ==
  IF bytes = <<>> THEN <<>>
  ELSE LET n == Min(Len(bytes), 3)
           b1 == bytes[1]
           b2 == IF n >= 2 THEN bytes[2] ELSE 0
           b3 == IF n >= 3 THEN bytes[3] ELSE 0
       IN << Base64Chars[(b1 \div 4) + 1],
             Base64Chars[((b1 % 4) * 16 + b2 \div 16) + 1],
             IF n >= 2 THEN Base64Chars[((b2 % 16) * 4 + b3 \div 64) + 1] ELSE "=",
             IF n >= 3 THEN Base64Chars[(b3 % 64) + 1] ELSE "=" >>
            \o Btoa(SubSeq(bytes, n + 1, Len(bytes)))

\* the value of a base64 character
Base64Value(c) == (CHOOSE i \in 1..64 : Base64Chars[i] = c) - 1

\* Buffer.from(text, "base64")
RECURSIVE FromBase64(_)
FromBase64(text) ==
  IF Len(text) < 4 THEN <<>>
  ELSE LET v1 == Base64Value(text[1])
           v2 == Base64Value(text[2])
           rest == FromBase64(SubSeq(text, 5, Len(text)))
       IN IF text[3] = "=" THEN <<v1 * 4 + v2 \div 16>> \o rest
          ELSE LET v3 == Base64Value(text[3])
               IN IF text[4] = "="
                    THEN <<v1 * 4 + v2 \div 16, (v2 % 16) * 16 + v3 \div 4>> \o rest
                    ELSE <<v1 * 4 + v2 \div 16, (v2 % 16) * 16 + v3 \div 4,
                           (v3 % 4) * 64 + Base64Value(text[4])>> \o rest

\* the bytes read as 16-bit signed little-endian PCM
RECURSIVE Pcm16(_)
Pcm16(bytes) ==
  IF Len(bytes) < 2 THEN <<>>
  ELSE LET u == bytes[1] + 256 * bytes[2]
       IN <<IF u >= 32768 THEN u - 65536 ELSE u>> \o Pcm16(SubSeq(bytes, 3, Len(bytes)))

\* nothing was encoded yet
NoQuant == [ints |-> <<>>, text |-> <<>>, bytes |-> <<>>, pcm |-> <<>>]

\* convertToBase64(float32Array) in the browser
ConvertToBase64 ==
  /\ qStage = "in"
  /\ LET ints == [i \in 1..Len(qIn) |-> Quantize(qIn[i])]
     IN qOut' = [qOut EXCEPT !.ints = ints, !.text = Btoa(BytesOf(ints))]
  /\ qStage' = "encoded"
  /\ UNCHANGED <<qIn, clsVars, framerVars, appVars, sessionVars, mgrVars>>

\* AssemblyAIStreaming.sendAudio(base64AudioChunk) on the server: the bytes
\* that go upstream, and the samples they are
SendAudioBytes ==
  /\ qStage = "encoded"
  /\ LET bytes == FromBase64(qOut.text)
     IN qOut' = [qOut EXCEPT !.bytes = bytes, !.pcm = Pcm16(bytes)]
  /\ qStage' = "sent"
  /\ UNCHANGED <<qIn, clsVars, framerVars, appVars, sessionVars, mgrVars>>

\* The loop of process over inputData, taken one run of writes at a time: the
\* samples that fit are written from bufferIndex on; when that fills the
\* buffer a copy of it is posted, bufferIndex goes back to 0 and the loop goes
\* on with the rest.
\* the loop giving up the rest of inputData once it has posted a frame
RECURSIVE Fill_DropRest(_, _, _)
Fill_DropRest(buf, idx, data) ==
  IF data = <<>>
    THEN [buffer |-> buf, bufferIndex |-> idx, frames |-> <<>>]
    ELSE LET m == Min(Len(data), bufferSize - idx)
             nb == [q \in 1..bufferSize |->
                      IF q > idx /\ q <= idx + m THEN data[q - idx] ELSE buf[q]]
         IN IF idx + m >= bufferSize
              THEN [buffer |-> nb, bufferIndex |-> 0, frames |-> <<nb>>]
              ELSE [buffer |-> nb, bufferIndex |-> idx + m, frames |-> <<>>]

RECURSIVE Fill(_, _, _)
Fill(buf, idx, data) ==
  IF data = <<>>
    THEN [buffer |-> buf, bufferIndex |-> idx, frames |-> <<>>]
    ELSE LET m == Min(Len(data), bufferSize - idx)
             nb == [q \in 1..bufferSize |->
                      IF q > idx /\ q <= idx + m THEN data[q - idx] ELSE buf[q]]
         IN IF idx + m >= bufferSize
              THEN LET r == Fill(nb, 0, SubSeq(data, m + 1, Len(data)))
                   IN [r EXCEPT !.frames = <<nb>> \o @]
              ELSE [buffer |-> nb, bufferIndex |-> idx + m, frames |-> <<>>]

\* AudioProcessor.process(inputs): the samples of inputs[0][0], if there is
\* such a channel, go through the buffer; it returns true
Process(b) ==
  /\ fed + b.len <= MaxSamples
  /\ LET data == [k \in 1..b.len |-> Sample(fed + k)]
         r == IF b.channels > 0
                THEN Fill(buffer, bufferIndex, data)
                ELSE [buffer |-> buffer, bufferIndex |-> bufferIndex,
                      frames |-> <<>>]
     IN /\ buffer' = r.buffer
        /\ bufferIndex' = r.bufferIndex
        /\ posted' = posted \o r.frames
  /\ fed' = fed + b.len
  /\ lastBlock' = b
  /\ UNCHANGED <<clsVars, quantVars, appVars, sessionVars, mgrVars>>

\* ws.onmessage of socket s (the browser dispatches 'message' only on a
\* socket in readyState OPEN): JSON.parse, then the message observers; a
\* text that does not parse reaches nobody
MgrMessage(s, f) ==
  /\ msock[s] = "open"
  /\ IF f.json THEN Dispatch("message") ELSE NoDispatch
  /\ UNCHANGED <<pureVars, sessionVars, sendVars, mws, isConnected,
                 isConnecting, reconnectAttempts, intentionalClose, msock,
                 mtimer, mpromise, nTimers, lastDelay, lastCall, lastCode,
                 intended, byIntent, mcalls, mthrew>>

\* the body of send(data): ws.send of the serialized data when this.ws is
\* open, nothing otherwise
DoSend(d) ==
  /\ msent' = IF MgrIsOpen THEN Append(msent, <<mws, Serialize(d)>>) ELSE msent
  /\ marg' = d

\* send(data) transmitting whatever the state of this.ws
MgrSend_NoOpenCheck(d) ==
  /\ mcalls < MaxMgrCalls
  /\ msent' = Append(msent, <<mws, Serialize(d)>>)
  /\ marg' = d
  /\ mout' = "true"
  /\ mcalls' = mcalls + 1
  /\ lastCall' = "send"
  /\ NoDispatch
  /\ UNCHANGED <<pureVars, sessionVars, mws, isConnected, isConnecting,
                 reconnectAttempts, intentionalClose, msock, mtimer, mpromise,
                 nTimers, lastDelay, lastCode, intended, byIntent, mthrew>>

\* the user calls send(data): true, or Error("WebSocket not connected")
MgrSend(d) ==
  /\ mcalls < MaxMgrCalls
  /\ DoSend(d)
  /\ mout' = IF MgrIsOpen THEN "true" ELSE "WebSocket not connected"
  /\ mcalls' = mcalls + 1
  /\ lastCall' = "send"
  /\ NoDispatch
  /\ UNCHANGED <<pureVars, sessionVars, mws, isConnected, isConnecting,
                 reconnectAttempts, intentionalClose, msock, mtimer, mpromise,
                 nTimers, lastDelay, lastCode, intended, byIntent, mthrew>>

\* terminate() calling send without looking at this.ws first
MgrTerminate_NoOpenCheck ==
  /\ mcalls < MaxMgrCalls
  /\ DoSend(TerminateData)
  /\ mout' = IF MgrIsOpen THEN "undefined" ELSE "WebSocket not connected"
  /\ mcalls' = mcalls + 1
  /\ lastCall' = "terminate"
  /\ NoDispatch
  /\ UNCHANGED <<pureVars, sessionVars, mws, isConnected, isConnecting,
                 reconnectAttempts, intentionalClose, msock, mtimer, mpromise,
                 nTimers, lastDelay, lastCode, intended, byIntent, mthrew>>

\* the user calls terminate(): send({terminate_session: true}) when this.ws
\* is open, nothing otherwise; it returns undefined
MgrTerminate ==
  /\ mcalls < MaxMgrCalls
  /\ IF MgrIsOpen THEN DoSend(TerminateData) ELSE UNCHANGED <<msent, marg>>
  /\ mout' = "undefined"
  /\ mcalls' = mcalls + 1
  /\ lastCall' = "terminate"
  /\ NoDispatch
  /\ UNCHANGED <<pureVars, sessionVars, mws, isConnected, isConnecting,
                 reconnectAttempts, intentionalClose, msock, mtimer, mpromise,
                 nTimers, lastDelay, lastCode, intended, byIntent, mthrew>>

\* the user calls forceTerminate(): send({terminate_session: true}) when
\* this.ws is open (an error of send is swallowed), then close() in any case
MgrForceTerminate ==
  /\ mcalls < MaxMgrCalls
  /\ IF MgrIsOpen THEN DoSend(TerminateData) ELSE UNCHANGED <<msent, marg>>
  /\ DoClose
  /\ mout' = "undefined"
  /\ mcalls' = mcalls + 1
  /\ lastCall' = "forceTerminate"
  /\ NoDispatch
  /\ UNCHANGED <<pureVars, sessionVars, reconnectAttempts, intentionalClose,
                 mtimer, mpromise, nTimers, lastDelay, lastCode, intended,
                 byIntent, mthrew>>

\* ---------------------------------------------------------------- the App
\* The App component owns one WebSocketManager and one recorder.  Its React
\* state (isConnected, wsConnected, isConnecting, isRecording) follows the
\* messages of the server, the observers it registered on the manager and its
\* own handlers.  A handler reads the state of the render that created it:
\* the render before the click for what it reads before its first await, and
\* the same values again after every await (handleStopRecording polls the
\* isConnected its closure captured).  The continuation of an await whose
\* promise is settled is a promise job: it runs before the next event.

\* the calls of handleStopRecording that are followed: every click but the
\* first, which starts a recording
StopCalls == 1..(MaxClicks - 1)

\* the state isStartingRecording: set at line 277 and cleared in the finally
\* block of handleStartRecording (handleStopRecording clears it too, at a
\* time when no handleStartRecording is running)
isStartingRecording == startPc # "idle"

\* the promise connectToWebSocket awaits: the one of the connect call that
\* created startSock, or the resolved promise connect() returns at its guard
StartPromise ==
  IF startSock = NoSocket THEN "resolved" ELSE mpromise[startSock]

\* a promise job of a handler of the App is due
AppJob ==
  \/ startPc \in {"connected", "finally"}
  \/ startPc = "connect" /\ StartPromise \in {"resolved", "rejected"}
  \/ \E i \in StopCalls : stopPc[i] = "stopped"

\* the first call of handleStopRecording not made yet
NextStopCall == Cardinality({i \in StopCalls : stopPc[i] # "idle"}) + 1

\* text was transmitted on socket s
WasSent(s, text) == \E i \in 1..Len(msent) : msent[i] = <<s, text>>

\* ws.onmessage of this.ws with the message observer of the App (lines
\* 130-189).  The server sends connection_established once, first;
\* assemblyai_connected answers audio_data; session_terminated answers
\* terminate_session, and is also what the server makes of the
\* SessionTerminated of an upstream session, which audio_data started.
AppOnMessage(type) ==
  /\ ~AppJob
  /\ MgrIsOpen
  /\ CASE type = "connection_established" ->
            /\ mws \notin greeted
            /\ greeted' = greeted \cup {mws}
            /\ uiWsConnected' = TRUE
            /\ UNCHANGED uiConnected
       [] type = "assemblyai_connected" ->
            /\ mws \in greeted
            /\ WasSent(mws, Serialize(AudioData))
            /\ uiConnected' = TRUE
            /\ UNCHANGED <<greeted, uiWsConnected>>
       [] type = "session_terminated" ->
            /\ mws \in greeted
            /\ \/ WasSent(mws, Serialize(TerminateData))
               \/ WasSent(mws, Serialize(AudioData))
            /\ uiConnected' = FALSE
            /\ UNCHANGED <<greeted, uiWsConnected>>
  /\ notified' = "message"
  /\ invoked' = handlers["message"]
  /\ threwIn' = {}
  /\ UNCHANGED <<clsVars, framerVars, quantVars, sessionVars, sendVars, mws,
                 isConnected, isConnecting, reconnectAttempts,
                 intentionalClose, msock, mtimer, mpromise, nTimers,
                 lastDelay, lastCall, lastCode, intended, byIntent, mcalls,
                 mthrew, handlers, startPc, startSock, nClicks, stopPc,
                 attempts, waited, capConnected, uiConnecting, uiRecording,
                 recRef, effRecording, nFrames>>

\* the 'error' event of socket s with the error observer of the App (lines
\* 191-198), which throws nothing
AppOnError(s) ==
  /\ ~AppJob
  /\ onerror(s)
  /\ threwIn' = {}
  /\ uiConnected' = FALSE
  /\ uiWsConnected' = FALSE
  /\ uiConnecting' = FALSE
  /\ UNCHANGED <<clsVars, framerVars, quantVars, sessionVars, startPc,
                 startSock, nClicks, stopPc, attempts, waited, capConnected,
                 uiRecording, recRef, effRecording, nFrames, greeted>>

\* the 'close' event of socket s with the close observer of the App (lines
\* 200-208), which was registered in the first run of the effect: the
\* isRecording of its closure is the false of that render, so it leaves the
\* recording alone
AppOnClose(s, code) ==
  /\ ~AppJob
  /\ onclose(s, code)
  /\ threwIn' = {}
  /\ uiConnected' = FALSE
  /\ uiWsConnected' = FALSE
  /\ uiConnecting' = FALSE
  /\ UNCHANGED <<clsVars, framerVars, quantVars, sessionVars, startPc,
                 startSock, nClicks, stopPc, attempts, waited, capConnected,
                 uiRecording, recRef, effRecording, nFrames, greeted>>

\* The render after isRecording changed: React runs the cleanup of the last
\* run of the effect that depends on isRecording, terminate() when the manager
\* says isConnected and close() in any case, and then the effect again, which
\* registers nothing (the observers are in place).
AppEffectCleanup ==
  /\ ~AppJob
  /\ effRecording # uiRecording
  /\ effRecording' = uiRecording
  /\ IF isConnected
       THEN /\ IF MgrIsOpen THEN DoSend(TerminateData)
                            ELSE UNCHANGED <<msent, marg>>
            /\ mout' = "undefined"
            /\ mcalls' = mcalls + 2
       ELSE /\ mcalls' = mcalls + 1
            /\ UNCHANGED <<msent, marg, mout>>
  /\ DoClose
  /\ lastCall' = "close"
  /\ NoDispatch
  /\ UNCHANGED <<clsVars, framerVars, quantVars, sessionVars,
                 reconnectAttempts, intentionalClose, mtimer, mpromise,
                 nTimers, lastDelay, lastCode, intended, byIntent, mthrew,
                 startPc, startSock, nClicks, stopPc, attempts, waited,
                 capConnected, uiConnected, uiWsConnected, uiConnecting,
                 uiRecording, recRef, nFrames, greeted>>

\* The user clicks the microphone button while it shows "start" (the click
\* is handled after the effects of the last render): handleStartRecording up
\* to its first await.  With wsConnected it goes straight to startRecording();
\* otherwise into connectToWebSocket, which returns wsConnected (false) while
\* isConnecting, and else sets isConnecting and awaits the fetch of /test and
\* the 1000 ms that follow it.  startRecording() returns false at once while
\* isRecordingRef is set, and else awaits the set-up of the audio.
StartBegin ==
  /\ ~AppJob
  /\ ~uiRecording /\ ~isStartingRecording
  /\ effRecording = uiRecording
  /\ nClicks < MaxClicks
  /\ nClicks' = nClicks + 1
  /\ IF uiWsConnected
       THEN /\ startPc' = IF recRef THEN "finally" ELSE "record"
            /\ UNCHANGED uiConnecting
       ELSE IF uiConnecting
         THEN /\ startPc' = "finally"
              /\ UNCHANGED uiConnecting
         ELSE /\ startPc' = "probe"
              /\ uiConnecting' = TRUE
  /\ UNCHANGED <<clsVars, framerVars, quantVars, sessionVars, mgrVars,
                 startSock, stopPc, attempts, waited, capConnected,
                 uiConnected, uiWsConnected, uiRecording, recRef,
                 effRecording, nFrames, greeted>>

\* connectToWebSocket: the fetch of /test fails; it returns false through its
\* finally block, and handleStartRecording is left to return
ProbeFails ==
  /\ ~AppJob
  /\ startPc = "probe"
  /\ startPc' = "finally"
  /\ uiConnecting' = FALSE
  /\ UNCHANGED <<clsVars, framerVars, quantVars, sessionVars, mgrVars,
                 startSock, nClicks, stopPc, attempts, waited, capConnected,
                 uiConnected, uiWsConnected, uiRecording, recRef,
                 effRecording, nFrames, greeted>>

\* connectToWebSocket after the fetch and the 1000 ms: connect() of the
\* manager, whose promise it awaits (connect() returns a resolved promise at
\* its guard)
StartConnect ==
  /\ ~AppJob
  /\ startPc = "probe"
  /\ MayCreate
  /\ DoConnect
  /\ startSock' = IF isConnecting \/ isConnected THEN NoSocket
                  ELSE Cardinality(MgrCreated) + 1
  /\ startPc' = "connect"
  /\ mcalls' = mcalls + 1
  /\ lastCall' = IF isConnecting \/ isConnected THEN "connectAgain" ELSE "connect"
  /\ intended' = FALSE
  /\ NoDispatch
  /\ UNCHANGED <<clsVars, framerVars, quantVars, sessionVars, sendVars,
                 isConnected, reconnectAttempts, intentionalClose, nTimers,
                 lastDelay, lastCode, byIntent, mthrew, nClicks, stopPc,
                 attempts, waited, capConnected, uiConnected, uiWsConnected,
                 uiConnecting, uiRecording, recRef, effRecording, nFrames,
                 greeted>>

\* connectToWebSocket after await connect(): setWsConnected(true), and true
\* is returned through the finally block
StartConnected ==
  /\ startPc = "connect"
  /\ StartPromise = "resolved"
  /\ startPc' = "connected"
  /\ uiWsConnected' = TRUE
  /\ uiConnecting' = FALSE
  /\ UNCHANGED <<clsVars, framerVars, quantVars, sessionVars, mgrVars,
                 startSock, nClicks, stopPc, attempts, waited, capConnected,
                 uiConnected, uiRecording, recRef, effRecording, nFrames,
                 greeted>>

\* connectToWebSocket after await connect(), rejected: false is returned
\* through the catch and finally blocks, and handleStartRecording is left to
\* return
StartConnectFailed ==
  /\ startPc = "connect"
  /\ StartPromise = "rejected"
  /\ startPc' = "finally"
  /\ uiConnecting' = FALSE
  /\ UNCHANGED <<clsVars, framerVars, quantVars, sessionVars, mgrVars,
                 startSock, nClicks, stopPc, attempts, waited, capConnected,
                 uiConnected, uiWsConnected, uiRecording, recRef,
                 effRecording, nFrames, greeted>>

\* handleStartRecording after await connectToWebSocket(): startRecording()
StartRecord ==
  /\ startPc = "connected"
  /\ startPc' = IF recRef THEN "finally" ELSE "record"
  /\ UNCHANGED <<clsVars, framerVars, quantVars, sessionVars, mgrVars,
                 startSock, nClicks, stopPc, attempts, waited, capConnected,
                 uiConnected, uiWsConnected, uiConnecting, uiRecording,
                 recRef, effRecording, nFrames, greeted>>

\* startRecording after its awaits: the audio is set up (isRecordingRef and
\* isRecording are set, true is returned) or it is not (false is returned);
\* whatever the manager is doing
StartRecorded(ok) ==
  /\ ~AppJob
  /\ startPc = "record"
  /\ startPc' = "finally"
  /\ recRef' = (recRef \/ ok)
  /\ uiRecording' = (uiRecording \/ ok)
  /\ UNCHANGED <<clsVars, framerVars, quantVars, sessionVars, mgrVars,
                 startSock, nClicks, stopPc, attempts, waited, capConnected,
                 uiConnected, uiWsConnected, uiConnecting, effRecording,
                 nFrames, greeted>>

\* handleStartRecording: its return or the end of its try block, and the
\* finally block
StartFinally ==
  /\ startPc = "finally"
  /\ startPc' = "idle"
  /\ UNCHANGED <<clsVars, framerVars, quantVars, sessionVars, mgrVars,
                 startSock, nClicks, stopPc, attempts, waited, capConnected,
                 uiConnected, uiWsConnected, uiConnecting, uiRecording,
                 recRef, effRecording, nFrames, greeted>>

\* processor.port.onmessage and handleAudioData.  The processor is connected
\* where isRecordingRef is set and disconnected where it is cleared; a frame
\* that was on its way then is dropped by onmessage.  While isRecordingRef is
\* set the frame reaches handleAudioData, which drops it unless the manager
\* says isConnected (a dropped frame changes nothing) and else calls
\* sendAudio (an error of send is caught).
AudioFrame ==
  /\ ~AppJob
  /\ nFrames < MaxAppFrames
  /\ nFrames' = IF recRef /\ isConnected THEN nFrames + 1 ELSE nFrames
  /\ IF recRef /\ isConnected
       THEN /\ DoSend(AudioData)
            /\ mout' = IF MgrIsOpen THEN "undefined" ELSE "WebSocket not connected"
            /\ mcalls' = mcalls + 1
            /\ lastCall' = "sendAudio"
       ELSE UNCHANGED <<msent, marg, mout, mcalls, lastCall>>
  /\ IF recRef /\ isConnected
       THEN NoDispatch
       ELSE UNCHANGED <<notified, invoked, threwIn, handlers>>
  /\ UNCHANGED <<clsVars, framerVars, quantVars, sessionVars, mws, isConnected,
                 isConnecting, reconnectAttempts, intentionalClose, msock,
                 mtimer, mpromise, nTimers, lastDelay, lastCode, intended,
                 byIntent, mthrew, startPc, startSock, nClicks, stopPc,
                 attempts, waited, capConnected, uiConnected, uiWsConnected,
                 uiConnecting, uiRecording, recRef, effRecording, greeted>>

\* stopRecording() of the recorder, which awaits nothing: isRecordingRef and
\* isRecording are cleared unless isRecordingRef is clear already
stopRecording ==
  IF recRef
    THEN recRef' = FALSE /\ uiRecording' = FALSE
    ELSE UNCHANGED <<recRef, uiRecording>>

\* terminate() throws what its send() throws.  send() throws "WebSocket not
\* connected" unless this.ws is OPEN, and terminate() calls it only behind the
\* same test.
terminateThrows == MgrIsOpen /\ ~MgrIsOpen

\* The catch block of handleStopRecording, entered from terminate():
\* forceStopRecording(), forceTerminate(), closeIntentionally() (this.ws is
\* null by then) and the two resets.
StopCatch(i) ==
  /\ recRef' = FALSE
  /\ uiRecording' = FALSE
  /\ IF MgrIsOpen THEN DoSend(TerminateData) ELSE UNCHANGED <<msent, marg>>
  /\ mout' = "undefined"
  /\ DoClose
  /\ intentionalClose' = TRUE
  /\ intended' = TRUE
  /\ mcalls' = mcalls + 3
  /\ lastCall' = "closeIntentionally"
  /\ uiConnected' = FALSE
  /\ uiWsConnected' = FALSE
  /\ stopPc' = [stopPc EXCEPT ![i] = "done"]
  /\ UNCHANGED <<byIntent, attempts, capConnected>>

\* The user clicks the microphone button while it shows "stop" (after the
\* effects of the last render; the button stays enabled while an earlier call
\* waits in its loop): handleStopRecording up to its first await.  When the
\* manager says isConnected, terminate() and into the loop; otherwise
\* stopRecording(), and the await of line 352.
StopBegin ==
  LET i == NextStopCall IN
  /\ ~AppJob
  /\ uiRecording
  /\ effRecording = uiRecording
  /\ i \in StopCalls
  /\ nClicks < MaxClicks
  /\ nClicks' = nClicks + 1
  /\ IF isConnected
       THEN IF terminateThrows
         THEN StopCatch(i)
         ELSE /\ IF MgrIsOpen THEN DoSend(TerminateData)
                              ELSE UNCHANGED <<msent, marg>>
              /\ mout' = "undefined"
              /\ mcalls' = mcalls + 1
              /\ lastCall' = "terminate"
              /\ stopPc' = [stopPc EXCEPT ![i] = "wait"]
              /\ attempts' = [attempts EXCEPT ![i] = 0]
              /\ capConnected' = [capConnected EXCEPT ![i] = uiConnected]
              /\ UNCHANGED <<mws, isConnected, isConnecting, msock,
                             intentionalClose, intended, byIntent,
                             uiConnected, uiWsConnected, uiRecording, recRef>>
       ELSE /\ stopRecording
            /\ stopPc' = [stopPc EXCEPT ![i] = "stopped"]
            /\ UNCHANGED <<msent, marg, mout, mcalls, lastCall, mws,
                           isConnected, isConnecting, msock, intentionalClose,
                           intended, byIntent, attempts, capConnected,
                           uiConnected, uiWsConnected>>
  /\ NoDispatch
  /\ UNCHANGED <<clsVars, framerVars, quantVars, sessionVars,
                 reconnectAttempts, mtimer, mpromise, nTimers, lastDelay,
                 lastCode, mthrew, startPc, startSock, waited, uiConnecting,
                 effRecording, nFrames, greeted>>

\* the loop going on whatever the number of attempts
LoopEnds_NoCeiling(i, n) == ~capConnected[i]

\* the loop of call i is left after this poll: the flag of the closure says
\* not connected, or this was the last attempt
LoopEnds(i, n) == ~capConnected[i] \/ n >= maxAttempts

\* The setTimeout of the loop of call i fires: one more attempt.  When the
\* loop is left: closeIntentionally(), stopRecording(), and the await of line
\* 352.  (Every call sets its next timer, of the same 200 ms, in the job that
\* follows the one before: the timers of an earlier call fire before those of
\* a later call.)
Poll(i) ==
  /\ ~AppJob
  /\ stopPc[i] = "wait"
  /\ \A j \in StopCalls :
       (j < i /\ stopPc[j] = "wait") => attempts[j] > attempts[i]
  /\ attempts' = [attempts EXCEPT ![i] = @ + 1]
  /\ waited' = [waited EXCEPT ![i] = @ + pollInterval]
  /\ IF LoopEnds(i, attempts[i] + 1)
       THEN /\ intentionalClose' = TRUE
            /\ DoClose
            /\ byIntent' = IF mws # NoSocket /\ msock[mws] # "closed"
                             THEN byIntent \cup {mws}
                             ELSE byIntent
            /\ intended' = TRUE
            /\ mcalls' = mcalls + 1
            /\ lastCall' = "closeIntentionally"
            /\ stopRecording
            /\ stopPc' = [stopPc EXCEPT ![i] = "stopped"]
       ELSE UNCHANGED <<intentionalClose, msock, mws, isConnected, isConnecting,
                        byIntent, intended, mcalls, lastCall, stopPc, recRef,
                        uiRecording>>
  /\ NoDispatch
  /\ UNCHANGED <<clsVars, framerVars, quantVars, sessionVars, sendVars,
                 reconnectAttempts, mtimer, mpromise, nTimers, lastDelay,
                 lastCode, mthrew, startPc, startSock, nClicks, capConnected,
                 uiConnected, uiWsConnected, uiConnecting, effRecording,
                 nFrames, greeted>>

\* handleStopRecording of call i after await stopRecording(): the resets of
\* lines 355-362, and the call returns (its locals are gone)
StopFinish(i) ==
  /\ stopPc[i] = "stopped"
  /\ stopPc' = [stopPc EXCEPT ![i] = "done"]
  /\ attempts' = [attempts EXCEPT ![i] = 0]
  /\ waited' = [waited EXCEPT ![i] = 0]
  /\ capConnected' = [capConnected EXCEPT ![i] = FALSE]
  /\ uiConnected' = FALSE
  /\ uiWsConnected' = FALSE
  /\ UNCHANGED <<clsVars, framerVars, quantVars, sessionVars, mgrVars, startPc,
                 startSock, nClicks, uiConnecting, uiRecording, recRef,
                 effRecording, nFrames, greeted>>

\* on<Class>(handler) adding to a list instead of a Set
MgrOn_List(class, h) ==
  /\ mcalls < MaxMgrCalls
  /\ handlers' = [handlers EXCEPT ![class] = Append(@, h)]
  /\ mcalls' = mcalls + 1
  /\ lastCall' = "on"
  /\ notified' = "none" /\ invoked' = <<>> /\ threwIn' = {}
  /\ UNCHANGED <<pureVars, sessionVars, sendVars, mws, isConnected,
                 isConnecting, reconnectAttempts, intentionalClose, msock,
                 mtimer, mpromise, nTimers, lastDelay, lastCode, intended,
                 byIntent, mthrew>>

\* the user calls onMessage, onError or onClose: Set.add
MgrOn(class, h) ==
  /\ mcalls < MaxMgrCalls
  /\ handlers' = [handlers EXCEPT ![class] = SetAdd(@, h)]
  /\ mcalls' = mcalls + 1
  /\ lastCall' = "on"
  /\ notified' = "none" /\ invoked' = <<>> /\ threwIn' = {}
  /\ UNCHANGED <<pureVars, sessionVars, sendVars, mws, isConnected,
                 isConnecting, reconnectAttempts, intentionalClose, msock,
                 mtimer, mpromise, nTimers, lastDelay, lastCode, intended,
                 byIntent, mthrew>>

\* the user calls offMessage, offError or offClose: Set.delete
MgrOff(class, h) ==
  /\ mcalls < MaxMgrCalls
  /\ handlers' = [handlers EXCEPT ![class] = SetDelete(@, h)]
  /\ mcalls' = mcalls + 1
  /\ lastCall' = "off"
  /\ notified' = "none" /\ invoked' = <<>> /\ threwIn' = {}
  /\ UNCHANGED <<pureVars, sessionVars, sendVars, mws, isConnected,
                 isConnecting, reconnectAttempts, intentionalClose, msock,
                 mtimer, mpromise, nTimers, lastDelay, lastCode, intended,
                 byIntent, mthrew>>

\* ========================================================= specification

SessionInit ==
  /\ apiKey \in {KeyMissing, KeyBadHeader, KeyValid}
  /\ isSessionActive = FALSE
  /\ isTerminating = FALSE
  /\ ws = NoSocket
  /\ sock = [s \in Sockets |-> "none"]
  /\ tasks = <<>>
  /\ draining = FALSE
  /\ pc = "idle"
  /\ client = "open"
  /\ wire = <<ConnectionEstablished>>
  /\ observed = <<>>
  /\ sentUp = <<>>
  /\ upLog = <<>>
  /\ nMsgs = 0
  /\ nAudio = 0
  /\ nTerm = 0
  /\ connectCalls = 0
  /\ terminated = {}
  /\ afterTerm = FALSE
  /\ sendOk = TRUE
  /\ uncaught = FALSE
  /\ unguarded = FALSE
  /\ closeCode = [s \in Sockets |-> NoCode]

\* the manager after its constructor and the registration of the observers hs
MgrWith(hs) ==
  /\ mws = NoSocket
  /\ isConnected = FALSE
  /\ isConnecting = FALSE
  /\ reconnectAttempts = 0
  /\ intentionalClose = FALSE
  /\ msock = [s \in MgrSockets |-> "none"]
  /\ mtimer = [s \in MgrSockets |-> "none"]
  /\ mpromise = [s \in MgrSockets |-> "none"]
  /\ nTimers = 0
  /\ lastDelay = 0
  /\ notified = "none"
  /\ lastCall = "none"
  /\ lastCode = NoCode
  /\ intended = FALSE
  /\ byIntent = {}
  /\ mcalls = 0
  /\ mthrew = FALSE
  /\ msent = <<>>
  /\ mout = "none"
  /\ marg = NoData
  /\ handlers = hs
  /\ invoked = <<>>
  /\ threwIn = {}

\* new WebSocketManager(url): the three Sets are empty
MgrInit == MgrWith([c \in ObserverClasses |-> <<>>])

\* new AudioProcessor()
FramerInit ==
  /\ buffer = [q \in 1..bufferSize |-> 0]
  /\ bufferIndex = 0
  /\ posted = <<>>
  /\ fed = 0
  /\ lastBlock = NoBlock

\* the App before a recording
AppInit ==
  /\ startPc = "idle"
  /\ startSock = NoSocket
  /\ nClicks = 0
  /\ stopPc = [i \in StopCalls |-> "idle"]
  /\ attempts = [i \in StopCalls |-> 0]
  /\ waited = [i \in StopCalls |-> 0]
  /\ capConnected = [i \in StopCalls |-> FALSE]
  /\ uiConnected = FALSE
  /\ uiWsConnected = FALSE
  /\ uiConnecting = FALSE
  /\ greeted = {}
  /\ uiRecording = FALSE
  /\ recRef = FALSE
  /\ effRecording = FALSE
  /\ nFrames = 0

\* nothing is being encoded
NoEncoding ==
  /\ qIn = <<>>
  /\ qOut = NoQuant
  /\ qStage = "in"

\* no AudioProcessor was constructed
NoFramer ==
  /\ buffer = <<>>
  /\ bufferIndex = 0
  /\ posted = <<>>
  /\ fed = 0
  /\ lastBlock = NoBlock

\* the state after wss.on("connection"); no upstream payload is looked at
Init ==
  /\ SessionInit
  /\ NoFramer
  /\ NoEncoding
  /\ clsIn = MalformedPayload
  /\ clsOut = <<>>
  /\ clsDone = FALSE
  /\ clsLog = <<>>
  /\ clsSeen = 0
  /\ MgrInit
  /\ AppInit

\* The session life cycle: every handler of the Session Proxy and every
\* upstream connection event.  Upstream payloads, which change neither the
\* session nor a socket, are left to SpecRelay.
Next ==
  \/ ClientAudioConnect
  \/ ClientAudioForward
  \/ ResumeConnect
  \/ ResumeHandler
  \/ TerminateBegin
  \/ TerminateEnd
  \/ ClientMalformed
  \/ ClientError
  \/ ClientClose
  \/ ClientSendBreaks
  \/ \E s \in Sockets : UpOpen(s)
  \/ \E s \in Sockets : UpPeerClose(s)
  \/ \E s \in Sockets : UpError(s)
  \/ \E s \in Sockets, code \in CloseCodes : UpClose(s, code)
  \/ ClientOnMessage

Spec == Init /\ [][Next]_vars

\* The relay: audio_data and terminate_session messages together with the
\* upstream payloads, for runs of at most MaxRelayMsgs client messages,
\* MaxRelaySockets upstream sockets and MaxRelayEvents client messages and
\* upstream payloads in all.  Client messages and the open, error and
\* close events of the upstream are followed while the client channel is OPEN,
\* upstream payloads and suspended handlers until its 'close' event (once the
\* channel has left OPEN client.send reaches nobody and neither wire nor
\* observed changes; the session itself is followed by Spec).  Malformed
\* client messages and the 'error' event of the client channel are left to
\* Spec and SpecUpstreamFault.  The close code only selects the text of
\* CloseMsg, so one code is followed.
RelayScope ==
  /\ nMsgs <= MaxRelayMsgs
  /\ Cardinality(Created) <= MaxRelaySockets
  /\ nMsgs + Len(upLog) <= MaxRelayEvents

NextRelay ==
  \/ ClientOpen /\ ClientAudioConnect /\ RelayScope'
  \/ ClientOpen /\ ClientAudioForward /\ RelayScope'
  \/ ResumeConnect
  \/ ResumeHandler
  \/ ClientOpen /\ TerminateBegin /\ RelayScope'
  \/ TerminateEnd
  \/ ClientClose
  \/ ClientSendBreaks
  \/ \E s \in Sockets : ClientOpen /\ UpOpen(s)
  \/ \E s \in Sockets : ClientOpen /\ UpPeerClose(s)
  \/ \E s \in Sockets, p \in RelayPayloads :
       client = "open" /\ UpMessage(s, p) /\ RelayScope'
  \/ \E s \in Sockets : ClientOpen /\ UpError(s)
  \/ \E s \in Sockets : ClientOpen /\ UpClose(s, CodeNormal)
  \/ ClientOnMessage

SpecRelay == Init /\ [][NextRelay]_vars

\* The relay with upstream payloads that may fail to parse, with malformed
\* client messages and with the 'error' event of the client channel.
NextUpstreamFault ==
  \/ ClientOpen /\ ClientAudioConnect /\ RelayScope'
  \/ ClientOpen /\ ClientAudioForward /\ RelayScope'
  \/ ResumeConnect
  \/ ResumeHandler
  \/ ClientOpen /\ TerminateBegin /\ RelayScope'
  \/ TerminateEnd
  \/ ClientOpen /\ ClientMalformed /\ RelayScope'
  \/ ClientError
  \/ ClientClose
  \/ ClientSendBreaks
  \/ \E s \in Sockets : ClientOpen /\ UpOpen(s)
  \/ \E s \in Sockets : ClientOpen /\ UpPeerClose(s)
  \/ \E s \in Sockets, p \in FaultPayloads :
       client = "open" /\ UpMessage(s, p) /\ RelayScope'
  \/ \E s \in Sockets : ClientOpen /\ UpError(s)
  \/ \E s \in Sockets : ClientOpen /\ UpClose(s, CodeNormal)
  \/ ClientOnMessage

SpecUpstreamFault == Init /\ [][NextUpstreamFault]_vars

\* The session life cycle with one close code of the upstream (the code only
\* selects the text of CloseMsg; the codes are followed by SpecCloseCodes).
NextOneCode ==
  \/ ClientAudioConnect
  \/ ClientAudioForward
  \/ ResumeConnect
  \/ ResumeHandler
  \/ TerminateBegin
  \/ TerminateEnd
  \/ ClientMalformed
  \/ ClientError
  \/ ClientClose
  \/ ClientSendBreaks
  \/ \E s \in Sockets : UpOpen(s)
  \/ \E s \in Sockets : UpPeerClose(s)
  \/ \E s \in Sockets : UpError(s)
  \/ \E s \in Sockets : UpClose(s, CodeNormal)
  \/ ClientOnMessage

SpecOneCode == Init /\ [][NextOneCode]_vars

\* The close codes of the upstream: sessions of audio_data messages, with
\* every connection event of the upstream and every close code.
NextCloseCodes ==
  \/ ClientAudioConnect
  \/ ClientAudioForward
  \/ ResumeConnect
  \/ ResumeHandler
  \/ ClientClose
  \/ ClientSendBreaks
  \/ \E s \in Sockets : UpOpen(s)
  \/ \E s \in Sockets : UpPeerClose(s)
  \/ \E s \in Sockets : UpError(s)
  \/ \E s \in Sockets, code \in CloseCodes : UpClose(s, code)
  \/ ClientOnMessage

SpecCloseCodes == Init /\ [][NextCloseCodes]_vars

\* The Event Classifier as a function: the upstream 'message' handler is
\* applied to one raw payload drawn from ClassifierPayloads.
InitClassify ==
  /\ SessionInit
  /\ NoFramer
  /\ NoEncoding
  /\ clsIn \in ClassifierPayloads
  /\ clsOut = <<>>
  /\ clsDone = FALSE
  /\ clsLog = <<>>
  /\ clsSeen = 0
  /\ MgrInit
  /\ AppInit

\* the message handler not repeating the onMessage call it made last
ReceivePayload_Dedup ==
  /\ clsSeen < MaxReceipts
  /\ clsOut' = Classify(clsIn)
  /\ clsLog' = IF clsLog # <<>> /\ <<clsLog[Len(clsLog)]>> = Classify(clsIn)
                 THEN clsLog
                 ELSE clsLog \o Classify(clsIn)
  /\ clsDone' = TRUE
  /\ clsSeen' = clsSeen + 1
  /\ UNCHANGED <<clsIn, sessionVars, mgrVars, framerVars, quantVars, appVars>>

\* this.ws.on("message") on a payload equal to clsIn (the same payload may
\* arrive again); clsOut is what onMessage was called with this time
ReceivePayload ==
  /\ clsSeen < MaxReceipts
  /\ clsOut' = Classify(clsIn)
  /\ clsLog' = clsLog \o Classify(clsIn)
  /\ clsDone' = TRUE
  /\ clsSeen' = clsSeen + 1
  /\ UNCHANGED <<clsIn, sessionVars, mgrVars, framerVars, quantVars, appVars>>

NextClassify == ReceivePayload

SpecClassify == InitClassify /\ [][NextClassify]_vars

\* The browser's WebSocketManager: calls of its user, its timers and the
\* events of the sockets it created, in every order.
\* the sockets of the manager of the App are within the bound
AppScope == Cardinality(MgrCreated) <= MaxAppSockets

\* Runs with at most MaxMgrCalls calls and MaxMgrSockets sockets.  The
\* methods that send (send, terminate, forceTerminate) are followed by SpecSend.
ClientScope == Cardinality(MgrCreated) <= MaxMgrSockets

\* the sockets followed with observers registered
ObserverScope == Cardinality(MgrCreated) <= MaxObserverSockets

InitClient == Init /\ apiKey = KeyValid

NextClient ==
  \/ MgrConnect /\ ClientScope'
  \/ MgrClose
  \/ MgrCloseIntentionally
  \/ \E s \in MgrSockets : MgrPeerClose(s)
  \/ ReconnectTimer /\ ClientScope'
  \/ \E s \in MgrSockets : ConnTimeout(s)
  \/ \E s \in MgrSockets : MgrOpen(s)
  \/ \E s \in MgrSockets : MgrError(s)
  \/ \E s \in MgrSockets, code \in MgrCloseCodes : MgrCloseEvent(s, code)

SpecClient == InitClient /\ [][NextClient]_vars

\* Automatic reconnection on its own: the user connects once and calls
\* nothing else, and every connection is answered in time (it opens or fails
\* before its connectionTimeout).
NextReconnect ==
  \/ mcalls = 0 /\ MgrConnect
  \/ ReconnectTimer
  \/ \E s \in MgrSockets : MgrOpen(s)
  \/ \E s \in MgrSockets : MgrError(s)
  \/ \E s \in MgrSockets, code \in MgrCloseCodes : MgrCloseEvent(s, code)

SpecReconnect == InitClient /\ [][NextReconnect]_vars

\* Sending on the channel: connect(), close(), send(), terminate() and
\* forceTerminate(), on connections that are answered in time and are not
\* reconnected.
NextSend ==
  \/ MgrConnect /\ ClientScope'
  \/ MgrClose
  \/ \E d \in MgrData : MgrSend(d)
  \/ MgrTerminate
  \/ MgrForceTerminate
  \/ \E s \in MgrSockets : MgrOpen(s)
  \/ \E s \in MgrSockets : MgrPeerClose(s)
  \/ \E s \in MgrSockets : MgrError(s)
  \/ \E s \in MgrSockets : MgrCloseEvent(s, CodeNormal)

SpecSend == InitClient /\ [][NextSend]_vars

\* The recordings of the App: the user clicks the microphone button to start
\* and to stop, the cleanup of the effect of the App closes the channel after
\* every change of isRecording and the manager reconnects, frames arrive from
\* the worklet, and the server greets, announces and ends the upstream
\* session.  A promise job of the App runs before the next event.  A
\* connection is answered or refused before its connectionTimeout, and the
\* server keeps the channel open until the App closes it (the close event of
\* a socket the App closed, or of one that failed, has a code other than
\* 1000).
NextStop ==
  \/ StartBegin
  \/ ProbeFails
  \/ StartConnect /\ AppScope'
  \/ StartConnected
  \/ StartConnectFailed
  \/ StartRecord
  \/ \E ok \in BOOLEAN : StartRecorded(ok)
  \/ StartFinally
  \/ AppEffectCleanup
  \/ AudioFrame
  \/ \E type \in {"connection_established", "assemblyai_connected",
                  "session_terminated"} : AppOnMessage(type)
  \/ StopBegin
  \/ \E i \in StopCalls : Poll(i)
  \/ \E i \in StopCalls : StopFinish(i)
  \/ \E s \in MgrSockets : ~AppJob /\ MgrOpen(s)
  \/ \E s \in MgrSockets :
       msock[s] \in {"connecting", "aborted"} /\ AppOnError(s)
  \/ \E s \in MgrSockets :
       msock[s] \in {"closing", "failed"} /\ AppOnClose(s, CodeNoStatus)
  \/ ~AppJob /\ ReconnectTimer /\ AppScope'

\* the observer of each class the App registers
AppObserver == "App"

\* The App after its mount: the first run of its effect made the manager and
\* registered one observer of each class on it (the later runs register
\* nothing: the Sets are not empty).
InitApp ==
  /\ SessionInit
  /\ apiKey = KeyValid
  /\ NoFramer
  /\ NoEncoding
  /\ clsIn = MalformedPayload
  /\ clsOut = <<>>
  /\ clsDone = FALSE
  /\ clsLog = <<>>
  /\ clsSeen = 0
  /\ MgrWith([c \in ObserverClasses |-> <<AppObserver>>])
  /\ AppInit

SpecStop == InitApp /\ [][NextStop]_vars

\* The Audio Framer: a new AudioProcessor whose process is called with one
\* block after another.
NextFramer == \E b \in Blocks : Process(b)

InitFramer ==
  /\ SessionInit /\ apiKey = KeyValid
  /\ clsIn = MalformedPayload
  /\ clsOut = <<>>
  /\ clsDone = FALSE
  /\ clsLog = <<>>
  /\ clsSeen = 0
  /\ MgrInit
  /\ AppInit
  /\ FramerInit
  /\ NoEncoding

SpecFramer == InitFramer /\ [][NextFramer]_vars

\* The sample encoder: one Float32Array goes through convertToBase64 in the
\* browser and through sendAudio on the server.
InitQuantize ==
  /\ SessionInit /\ apiKey = KeyValid
  /\ clsIn = MalformedPayload
  /\ clsOut = <<>>
  /\ clsDone = FALSE
  /\ clsLog = <<>>
  /\ clsSeen = 0
  /\ MgrInit
  /\ AppInit
  /\ NoFramer
  /\ qIn \in QuantInputs
  /\ qOut = NoQuant
  /\ qStage = "in"

NextQuantize == ConvertToBase64 \/ SendAudioBytes

SpecQuantize == InitQuantize /\ [][NextQuantize]_vars

\* The observers: registration and removal, and the events of the sockets
\* the manager creates.
NextObservers ==
  \/ \E c \in ObserverClasses, h \in Observers : MgrOn(c, h)
  \/ \E c \in ObserverClasses, h \in Observers : MgrOff(c, h)
  \/ MgrConnect /\ ObserverScope'
  \/ \E s \in MgrSockets : MgrOpen(s)
  \/ \E s \in MgrSockets, f \in MgrFrames : MgrMessage(s, f)
  \/ \E s \in MgrSockets : MgrError(s)
  \/ \E s \in MgrSockets : MgrCloseEvent(s, CodeNormal)

SpecObservers == InitClient /\ [][NextObservers]_vars

\* ================================================================ claims

IsOpenOrConnecting(s) == sock[s] \in {"connecting", "open"}

\* C1: at most one upstream WebSocket created for the client connection is
\* open or connecting at any time.
C1_AtMostOneLiveUpstream == Cardinality(Live) <= 1

\* C2: when an audio_data handler starts while an earlier one is suspended at
\* its await of the upstream connect, it does not call
\* AssemblyAIStreaming.connect again and no second upstream socket is created
\* (stated for a credential a socket can be created with).
C2_SecondHandlerDoesNotConnect ==
  [][(apiKey = KeyValid /\ tasks # <<>> /\ ~draining /\ nAudio' = nAudio + 1)
       => (connectCalls' = connectCalls /\ Created' = Created)]_vars

\* C3: isSessionActive implies that the AssemblyAIStreaming instance holds an
\* upstream transport that is open or connecting.
C3_ActiveHasLiveUpstream ==
  isSessionActive => (ws # NoSocket /\ IsOpenOrConnecting(ws))

\* C4: when the client 'close' or 'error' handler returns after it ran while
\* the proxy was Active, the proxy is not Active and the session's upstream
\* transport is neither open nor connecting.
C4_ClientGoneTearsDown ==
  [][(client' # client /\ isSessionActive /\ ws # NoSocket)
       => (~isSessionActive' /\ sock'[ws] \notin {"connecting", "open"})]_vars

\* C5: an upstream connection the session owned when a terminate_session
\* request was handled does not remain open.
C5_TerminatedNotOpen == \A s \in terminated : sock[s] # "open"

\* C6: while isTerminating is true no audio_data message is forwarded
\* upstream, queued or made to initiate an upstream connection, and the
\* teardown of the terminate_session handler runs with isTerminating set.
C6_TerminatingDropsAudio ==
  [][/\ isTerminating =>
          /\ sentUp' = sentUp
          /\ Len(tasks') <= Len(tasks)
          /\ connectCalls' = connectCalls
          /\ Created' = Created
     /\ nTerm' # nTerm => isTerminating]_vars

\* an audio_data handler is suspended in the middle of its handling while the
\* terminate_session handler has raised isTerminating
C6_Witness == isTerminating /\ tasks # <<>> /\ ws # NoSocket

\* C7: after every handling of terminate_session isTerminating is false
\* again, and (with a credential a socket can be created with) the next
\* audio_data message initiates a new upstream connection.
C7_ReusableAfterTerminate ==
  [][/\ nTerm' # nTerm => ~isTerminating'
     /\ (apiKey = KeyValid /\ afterTerm /\ nAudio' = nAudio + 1)
          => (connectCalls' = connectCalls + 1 /\ Created' # Created)]_vars

\* C8: a terminate_session handled while the session holds no upstream
\* connection does not throw (the handler confirms, it reports no
\* termination_error: the confirmation is what a client channel that is OPEN
\* is sent) and creates no upstream connection.
C8_TerminateWhileIdle ==
  [][(nTerm' # nTerm /\ ws = NoSocket)
       => /\ ClientOpen => wire' = Append(wire, SessionTerminatedConfirm)
          /\ ~ClientOpen => wire' = wire
          /\ sock' = sock
          /\ ws' = NoSocket
          /\ connectCalls' = connectCalls]_vars

\* terminate_session was handled before any upstream connection existed
C8_Witness ==
  /\ nTerm = 1
  /\ Created = {}
  /\ connectCalls = 0
  /\ observed \o wire = <<ConnectionEstablished, SessionTerminatedConfirm>>

\* the messages of a sequence that satisfy a test
RECURSIVE CountType(_, _)
CountType(seq, type) ==
  IF seq = <<>> THEN 0
  ELSE (IF seq[1].type = type THEN 1 ELSE 0) + CountType(Tail(seq), type)

RECURSIVE CountMsg(_, _)
CountMsg(seq, m) ==
  IF seq = <<>> THEN 0
  ELSE (IF seq[1] = m THEN 1 ELSE 0) + CountMsg(Tail(seq), m)

RECURSIVE CountUpTerminated(_)
CountUpTerminated(log) ==
  IF log = <<>> THEN 0
  ELSE (IF log[1].p.json /\ log[1].p.type # "Turn"
             /\ log[1].p.message_type = "SessionTerminated" THEN 1 ELSE 0)
       + CountUpTerminated(Tail(log))

\* C9 as claimed: the client has received exactly one message of type
\* session_terminated for each terminate_session request it sent.
C9_ExactlyOnePerRequest ==
  (client = "open" /\ wire = <<>>)
    => CountType(observed, "session_terminated") = nTerm

\* C9 as amended: while the client channel is open, the terminate handler has
\* sent exactly one confirmation per handled request, and the client gets one
\* more message of type session_terminated for every SessionTerminated
\* payload of the upstream.
C9_OnePerRequestPlusRelayed ==
  client = "open" =>
    /\ CountMsg(observed \o wire, SessionTerminatedConfirm) = nTerm
    /\ CountType(observed \o wire, "session_terminated")
         = nTerm + CountUpTerminated(upLog)

\* one request was confirmed and an upstream SessionTerminated was relayed
C9_Witness ==
  /\ nTerm = 1
  /\ CountUpTerminated(upLog) = 1
  /\ CountType(observed, "session_terminated") = 2

\* the transcript event a raw payload stands for, if any
C10_Event(p) ==
  IF p.json /\ p.type = "Turn" /\ p.transcript # <<>>
       /\ (~p.end_of_turn
             \/ \E i \in DOMAIN p.transcript :
                  p.transcript[i] \in Punctuation \cup UpperCase)
    THEN <<TranscriptMsg(p.transcript, ~p.end_of_turn, p.end_of_turn)>>
    ELSE <<>>

RECURSIVE C10_Emitted(_)
C10_Emitted(log) ==
  IF log = <<>> THEN <<>> ELSE C10_Event(log[1].p) \o C10_Emitted(Tail(log))

Transcripts(seq) == SelectSeq(seq, LAMBDA m : m.text # <<>>)

IsPrefix(a, b) == Len(a) <= Len(b) /\ a = SubSeq(b, 1, Len(a))

\* C10: the transcript events the browser's message observers have seen are,
\* in order and each once, the transcript events the upstream emitted: a
\* prefix of them always, and all of them once nothing is in flight.
C10_RelayedInOrderOnce ==
  /\ IsPrefix(Transcripts(observed), C10_Emitted(upLog))
  /\ client = "open" => Transcripts(observed \o wire) = C10_Emitted(upLog)

\* the upstream emitted one partial and then one formatted final
C10_Witness ==
  /\ Len(upLog) = 2
  /\ upLog[1].p = PartialTurn
  /\ upLog[2].p = FinalTurnFormatted
  /\ Transcripts(observed)
       = <<TranscriptMsg(TextPlain, TRUE, FALSE),
           TranscriptMsg(TextFormatted, FALSE, TRUE)>>

\* the frame of the audio_data handler that runs or resumes in this step
C11_HandlerFrame(f) ==
  \/ nAudio' = nAudio + 1 /\ f = nAudio'
  \/ tasks # <<>> /\ Head(tasks).k = "outer" /\ f = Head(tasks).frame

\* C11: a frame goes upstream only in a step of its own audio_data handler,
\* taken while isSessionActive is true, isTerminating is false and this.ws is
\* an open socket; it is sent on this.ws, and the handler ends with that step,
\* so a frame that was not sent then is never sent.
C11_ForwardOnlyWhenOpen ==
  [][sentUp' # sentUp
       => /\ isSessionActive /\ ~isTerminating
          /\ ws # NoSocket /\ sock[ws] = "open"
          /\ \E f \in 1..MaxClientMsgs + 1 :
               C11_HandlerFrame(f) /\ sentUp' = Append(sentUp, <<f, ws>>)
          /\ Len(tasks') <= Len(tasks)]_vars

\* one frame was forwarded, two were dropped, no handler is pending
C11_Witness == Len(sentUp) = 1 /\ nAudio = 3 /\ tasks = <<>>

\* C12: the frames sent upstream are in the order the server received them
\* and none is sent twice: frame numbers (the order of receipt) increase
\* strictly along sentUp and never exceed the number of frames received.
C12_SentInOrderOfReceipt ==
  /\ \A i \in 1..Len(sentUp) : sentUp[i][1] \in 1..nAudio
  /\ \A i, j \in 1..Len(sentUp) : i < j => sentUp[i][1] < sentUp[j][1]

\* two frames were forwarded after a first one was dropped at its await
C12_Witness == Len(sentUp) = 2 /\ nAudio = 3 /\ connectCalls = 1
\* C13: the proxy becomes Active, and assemblyai_connected is sent, only when
\* the upstream socket held by the session has reported open.
C13_ActiveOnlyAfterOpen ==
  [][(apiKey = KeyValid
        /\ (\/ ~isSessionActive /\ isSessionActive'
            \/ wire' = Append(wire, AssemblyAIConnected)))
       => (ws # NoSocket /\ sock[ws] \in {"open"})]_vars
\* the error message the client is to get for a credential new WebSocket
\* refuses
C14_BadHeaderErrorMsg ==
  ErrorMsg("AssemblyAI connection error: Invalid character in header content [\"Authorization\"]", 0)

\* C14: a failed upstream connect leaves the proxy Idle, the client is sent an
\* error, and no connect is started by the failure.  The connect fails at the
\* call when no credential is configured or new WebSocket refuses it, and
\* with an 'error' event of the connecting socket otherwise.
C14_FailedConnectLeavesIdle ==
  [][/\ apiKey # KeyValid => ~isSessionActive'
     /\ (apiKey # KeyValid /\ connectCalls' # connectCalls)
          => /\ ClientOpen
                  => wire' = Append(wire, IF apiKey = KeyMissing
                                             THEN MissingKeyErrorMsg
                                             ELSE C14_BadHeaderErrorMsg)
             /\ nAudio' = nAudio + 1
     /\ \A s \in Sockets :
          (sock[s] = "connecting" /\ sock'[s] = "errored" /\ ws = s)
            => /\ ~isSessionActive'
               /\ ClientOpen => wire' = Append(wire, ConnectionErrorMsg)
               /\ connectCalls' = connectCalls]_vars

\* C15: connect called with no credential runs onError once (one missing-key
\* error message goes to a client channel that is OPEN), creates no WebSocket
\* and leaves this.ws alone, and its promise resolves: the caller continues
\* after its await.
C15_NoCredentialFailsFast ==
  [][(apiKey = KeyMissing /\ connectCalls' = connectCalls + 1)
       => /\ ClientOpen => wire' = Append(wire, MissingKeyErrorMsg)
          /\ ~ClientOpen => wire' = wire
          /\ sock' = sock /\ ws' = ws /\ Created' = {}
          /\ tasks' # <<>> /\ ~tasks'[Len(tasks')].rejected]_vars

\* connect was called without a credential and its caller has resumed
C15_Witness ==
  /\ apiKey = KeyMissing /\ connectCalls = 1 /\ Created = {}
  /\ tasks = <<>>
  /\ observed = <<ConnectionEstablished, MissingKeyErrorMsg, AssemblyAIConnected>>
\* an 'error' or 'close' event of upstream socket s is handled in this step
C16_UpstreamFailed(s) == sock'[s] # sock[s] /\ sock'[s] \in {"errored", "closed"}

\* C16: the handler of an upstream close or error leaves the proxy Idle and
\* starts no connect and no continuation; connect is only ever called in the
\* step that handles an audio_data message of the client.
C16_NoAutomaticReconnect ==
  [][/\ (\E s \in Sockets : C16_UpstreamFailed(s))
          => /\ ~isSessionActive'
             /\ connectCalls' = connectCalls /\ Created' = Created
             /\ tasks' = <<>>
     /\ connectCalls' # connectCalls
          => (nAudio' = nAudio + 1 /\ nMsgs' = nMsgs + 1)]_vars

\* the socket of a session that forwarded audio failed and the proxy is Idle
C16_Witness ==
  /\ sentUp # <<>> /\ connectCalls = 1
  /\ ws # NoSocket /\ sock[ws] \in {"errored", "closed"}
  /\ ~isSessionActive

\* the error message the client is to get for a close code
C17_Expected(code) ==
  CASE code = CodeInvalidKey -> ErrorMsg("Invalid AssemblyAI API key", 0)
    [] code = CodeDeprecated -> ErrorMsg("AssemblyAI model deprecated", 0)
    [] OTHER -> ErrorMsg("AssemblyAI connection closed", code)

\* C17: while the client channel is OPEN, every upstream socket that closed
\* has a close code, and for every code the client was sent as many of that
\* code's messages as sockets closed with it: one message per close event.
C17_OneMessagePerClose ==
  ClientOpen
    => /\ \A s \in Sockets : sock[s] = "closed" => closeCode[s] \in CloseCodes
       /\ \A code \in CloseCodes :
            CountMsg(observed \o wire, C17_Expected(code))
              = Cardinality({s \in Sockets : closeCode[s] = code})

\* two sockets closed, one with 4001 and one with another code
C17_Witness ==
  /\ ClientOpen /\ wire = <<>>
  /\ \E s, r \in Sockets : closeCode[s] = CodeInvalidKey /\ closeCode[r] = CodeNormal

\* C18: the handler of a client message that is not JSON sends
\* { error: "Invalid message format" } (a client channel that is OPEN gets
\* it, and only it) and changes neither flag, neither this.ws nor a socket,
\* and starts no connect.  (It is the only message handler that neither counts
\* an audio frame nor enters the terminate branch.)
C18_MalformedAnswered ==
  [][(nMsgs' = nMsgs + 1 /\ nAudio' = nAudio /\ pc' = pc)
       => /\ ClientOpen => wire' = Append(wire, InvalidMessageFormat)
          /\ ~ClientOpen => wire' = wire
          /\ UNCHANGED <<isSessionActive, isTerminating, ws, sock, tasks,
                         connectCalls, sentUp>>]_vars

\* a malformed message was answered while the session stayed Active and open
C18_Witness ==
  /\ isSessionActive /\ ws # NoSocket /\ sock[ws] = "open"
  /\ observed # <<>> /\ observed[Len(observed)] = InvalidMessageFormat

C20_Formatted(t) ==
  \E i \in 1..Len(t) :
    t[i] \in {".", ",", "!", "?",
              "A", "B", "C", "D", "E", "F", "G", "H", "I", "J", "K", "L", "M",
              "N", "O", "P", "Q", "R", "S", "T", "U", "V", "W", "X", "Y", "Z"}

\* C20: for an end-of-turn Turn payload with non-empty text the classifier
\* yields the final transcript of that text if the text contains one of
\* . , ! ? or a letter A-Z, and nothing otherwise; "hello world" yields
\* nothing and "Hello world." its final transcript.
C20_FinalIffFormatted ==
  (/\ clsDone /\ clsIn.json /\ clsIn.type = "Turn"
   /\ clsIn.end_of_turn /\ clsIn.transcript # <<>>)
    => /\ C20_Formatted(clsIn.transcript)
            => clsOut = <<TranscriptMsg(clsIn.transcript, FALSE, TRUE)>>
       /\ ~C20_Formatted(clsIn.transcript) => clsOut = <<>>
       /\ clsIn.transcript = HelloWorldPlain => clsOut = <<>>
       /\ clsIn.transcript = HelloWorldFormatted
            => clsOut = <<TranscriptMsg(HelloWorldFormatted, FALSE, TRUE)>>

\* the end-of-turn payload "Hello world." was classified as a final
C20_Witness ==
  /\ clsDone /\ clsIn = Payload(TRUE, "Turn", "", HelloWorldFormatted, TRUE)
  /\ clsOut # <<>>
\* C21: a Turn payload that is not end-of-turn and has non-empty text yields
\* one partial transcript of that text (partial true, final false) every time
\* it arrives: after n receipts of the same payload onMessage was called n
\* times with it.
C21_PartialAlwaysForwarded ==
  (/\ clsDone /\ clsIn.json /\ clsIn.type = "Turn"
   /\ ~clsIn.end_of_turn /\ clsIn.transcript # <<>>)
    => /\ clsOut = <<TranscriptMsg(clsIn.transcript, TRUE, FALSE)>>
       /\ clsOut[1].partial /\ ~clsOut[1].final
       /\ Len(clsLog) = clsSeen
       /\ \A i \in 1..Len(clsLog) :
            clsLog[i] = TranscriptMsg(clsIn.transcript, TRUE, FALSE)

\* the same partial payload arrived twice and was handed on twice
C21_Witness ==
  /\ clsIn = PartialTurn /\ clsSeen = 2
  /\ clsLog = <<TranscriptMsg(TextPlain, TRUE, FALSE),
                TranscriptMsg(TextPlain, TRUE, FALSE)>>

\* a payload of one of the two lifecycle kinds (and not a Turn)
C22_Lifecycle(p, kind) == p.json /\ p.type # "Turn" /\ p.message_type = kind

\* C22: every payload yields at most one event; a SessionBegins payload yields
\* the session_begins event, a SessionTerminated payload the
\* session_terminated event, and a payload that is neither a Turn with text
\* nor one of these two yields nothing.
C22_ZeroOrOneEvent ==
  clsDone
    => /\ Len(clsOut) <= 1
       /\ C22_Lifecycle(clsIn, "SessionBegins")
            => clsOut = <<LifecycleMsg("session_begins", "Session started")>>
       /\ C22_Lifecycle(clsIn, "SessionTerminated")
            => clsOut = <<LifecycleMsg("session_terminated", "Session terminated")>>
       /\ (/\ ~(clsIn.json /\ clsIn.type = "Turn" /\ clsIn.transcript # <<>>)
           /\ ~C22_Lifecycle(clsIn, "SessionBegins")
           /\ ~C22_Lifecycle(clsIn, "SessionTerminated"))
            => clsOut = <<>>

\* a SessionBegins payload was mapped to its lifecycle event
C22_Witness ==
  /\ clsDone /\ clsIn = SessionBeginsPayload
  /\ clsOut = <<LifecycleMsg("session_begins", "Session started")>>
\* C23: the handler of an upstream payload that does not parse sends nothing
\* to the client, lets no exception escape, and changes neither flag, neither
\* this.ws nor a socket nor the pending continuations (so neither onMessage,
\* onError nor onClose ran).
C23_UnparsableDropped ==
  [][(Len(upLog') = Len(upLog) + 1 /\ ~upLog'[Len(upLog')].p.json)
       => /\ wire' = wire
          /\ uncaught' = uncaught
          /\ UNCHANGED <<isSessionActive, isTerminating, ws, sock, tasks,
                         closeCode, sentUp, connectCalls>>]_vars

\* a payload that does not parse arrived on the open socket of an Active
\* session and the client saw nothing of it
C23_Witness ==
  /\ upLog # <<>> /\ ~upLog[Len(upLog)].p.json
  /\ isSessionActive /\ ws # NoSocket /\ sock[ws] = "open"
  /\ wire = <<>>
  /\ observed = <<ConnectionEstablished, AssemblyAIConnected>>
\* the user calls connect() in this step
C24_ConnectCall == mcalls' = mcalls + 1 /\ lastCall' \in {"connect", "connectAgain"}

\* C24: a connect() called while the manager is connecting or connected
\* creates no socket and touches neither this.ws nor a timer or promise; every
\* connect() leaves the manager connecting or connected (so a second call
\* right after it returns at the guard) and creates at most one socket.
C24_ConnectIdempotent ==
  [][C24_ConnectCall
       => /\ (isConnecting \/ isConnected)
               => UNCHANGED <<msock, mws, mtimer, mpromise, isConnecting, isConnected>>
          /\ isConnecting' \/ isConnected'
          /\ Cardinality(MgrCreated') <= Cardinality(MgrCreated) + 1]_vars

\* connect() was called again while the only socket was still connecting
C24_Witness ==
  /\ lastCall = "connectAgain" /\ isConnecting
  /\ MgrCreated = {1} /\ msock[1] = "connecting"

\* C25: once closeIntentionally() was called (and connect() was not called
\* since), no reconnect timer is set and a reconnect timer that fires opens
\* no connection.
C25_NoReconnectAfterIntentionalClose ==
  [][intended
       => /\ nTimers' <= nTimers
          /\ nTimers' < nTimers => msock' = msock]_vars

\* the close event of socket s is handled in this step
C26_CloseEvent(s) == msock[s] # "closed" /\ msock'[s] = "closed"

\* C26: the close handler always leaves intentionalClose cleared, and the
\* flag never reaches a connection it was not set for: a close with a code
\* other than 1000 of a socket that closeIntentionally() did not close sets a
\* reconnect timer while the ceiling is not reached.
C26_FlagIsOneShot ==
  [][\A s \in MgrSockets :
       C26_CloseEvent(s)
         => /\ ~intentionalClose'
            /\ (/\ s \notin byIntent /\ lastCode' # CodeNormal
                /\ reconnectAttempts < maxReconnectAttempts)
                 => nTimers' = nTimers + 1]_vars

\* C27: a close event sets a reconnect timer if and only if its code is not
\* 1000, its socket was not closed by closeIntentionally(), and
\* reconnectAttempts is below maxReconnectAttempts.
C27_ReconnectIff ==
  [][\A s \in MgrSockets :
       C26_CloseEvent(s)
         => /\ nTimers' \in {nTimers, nTimers + 1}
            /\ nTimers' = nTimers + 1
                 <=> (/\ lastCode' # CodeNormal
                      /\ s \notin byIntent
                      /\ reconnectAttempts < maxReconnectAttempts)]_vars

\* the socket that opened last (the promise of its connect call resolved),
\* 0 if none has
C28_LastOpened ==
  IF \E s \in MgrSockets : mpromise[s] = "resolved"
    THEN CHOOSE s \in MgrSockets :
           /\ mpromise[s] = "resolved"
           /\ \A r \in MgrSockets : mpromise[r] = "resolved" => r <= s
    ELSE 0

\* The close events since the last successful open.  Where the user connects
\* once and the manager reconnects on its own, every socket but the first is
\* created by the timer of an abnormal close: behind an abnormal close these
\* are the consecutive abnormal closes with no successful connection in
\* between, the close of the socket that opened last included.
C28_ClosesSinceOpen ==
  Cardinality({s \in MgrSockets : msock[s] = "closed" /\ s >= C28_LastOpened})

\* the close event of socket s with a code other than 1000 in this step
C28_AbnormalClose(s) ==
  msock[s] # "closed" /\ msock'[s] = "closed" /\ lastCode' # CodeNormal

\* reconnectAttempts never exceeds maxReconnectAttempts, and it goes down only
\* to 0 and only in the step in which a socket opens
C28_CounterBounded ==
  /\ reconnectAttempts' <= maxReconnectAttempts
  /\ reconnectAttempts' < reconnectAttempts
       => /\ reconnectAttempts' = 0
          /\ \E s \in MgrSockets : msock[s] = "connecting" /\ msock'[s] = "open"

C29_DelayDoublesFromTwice ==
  [][nTimers' = nTimers + 1
       => lastDelay' = reconnectDelay * Pow2(reconnectAttempts')]_vars

\* C29, amended: the timer of the k-th consecutive reconnect (k the attempt
\* counter after its increment) waits 1000 * 2^(k-1): 1000, 2000, 4000,
\* 8000, 16000.
C29_DelayDoublesFromBase ==
  [][nTimers' = nTimers + 1
       => /\ reconnectAttempts' = reconnectAttempts + 1
          /\ reconnectAttempts' \in 1..5
          /\ lastDelay' = <<1000, 2000, 4000, 8000, 16000>>[reconnectAttempts']]_vars

\* the fifth consecutive reconnect was scheduled, with a delay of 16000
C29_Witness == reconnectAttempts = 5 /\ nTimers = 1 /\ lastDelay = 16000

\* C30: when the connectionTimeout of a connect call fires, the promise of
\* that call is rejected and the error observers are called.
C30_TimeoutSurfaced ==
  [][\A s \in MgrSockets :
       (mtimer[s] = "pending" /\ mtimer'[s] = "fired" /\ mws = s)
         => (mpromise'[s] = "rejected" /\ notified' = "error")]_vars

\* C39: at most one socket created by the manager is open or connecting, and
\* isConnected implies that this.ws is an open socket (or one that was open
\* until the Close frame of the server was read, its 'close' event being
\* still to come).
C39_SingleLiveSocket ==
  /\ Cardinality(MgrLive) <= 1
  /\ isConnected => (mws # NoSocket /\ msock[mws] \in {"open", "closing"})

\* the user calls send() in this step
C31_SendCall == mcalls' = mcalls + 1 /\ lastCall' = "send"

\* the text each argument of send() goes out as
C31_Text(d) ==
  CASE d = PlainString -> "ping"
    [] d = JsonString -> "{\"terminate_session\":true}"
    [] d = AudioData -> "{\"audio_data\":\"AAAA\"}"
    [] d = TerminateData -> "{\"terminate_session\":true}"

\* C31: send(data) throws "WebSocket not connected" and transmits nothing
\* unless this.ws is an open socket; when it is, the text of data (data itself
\* if it is a string, its JSON otherwise) is transmitted once on that socket
\* and send returns true.
C31_SendNotConnectedOrOnce ==
  [][C31_SendCall
       => IF mws # NoSocket /\ msock[mws] = "open"
            THEN /\ msent' = Append(msent, <<mws, C31_Text(marg')>>)
                 /\ mout' = "true"
            ELSE /\ msent' = msent
                 /\ mout' = "WebSocket not connected"]_vars

\* an object was sent on the open socket, as JSON, once
C31_Witness ==
  /\ lastCall = "send" /\ mout = "true" /\ marg = AudioData
  /\ msent = <<<<1, "{\"audio_data\":\"AAAA\"}">>>>
  /\ mws = 1 /\ msock[1] = "open"

\* the user calls terminate() in this step
C32_TerminateCall == mcalls' = mcalls + 1 /\ lastCall' = "terminate"

\* C32: terminate() called while this.ws is not an open socket returns
\* normally, transmits nothing and changes no field of the manager, no socket
\* and no timer.
C32_TerminateSilentWhenNotOpen ==
  [][(C32_TerminateCall /\ ~(mws # NoSocket /\ msock[mws] = "open"))
       => /\ mout' = "undefined"
          /\ msent' = msent
          /\ UNCHANGED <<mws, isConnected, isConnecting, reconnectAttempts,
                         intentionalClose, msock, mtimer, mpromise, nTimers,
                         handlers>>]_vars

\* terminate() was called while the socket was still connecting
C32_Witness ==
  /\ lastCall = "terminate" /\ mout = "undefined" /\ msent = <<>>
  /\ mws = 1 /\ msock[1] = "connecting" /\ isConnecting

\* the number of times h occurs in seq
C33_Count(seq, h) == Cardinality({i \in 1..Len(seq) : seq[i] = h})

\* C33: in every event that reaches the observers of a class, every observer
\* registered for the class (however many times it was registered, and
\* whichever observers throw) is called exactly once and nobody else is
\* called; registering an observer that is registered changes nothing.
C33_ObserversIndependent ==
  [][/\ \A c \in ObserverClasses :
          notified' = c
            => /\ \A h \in Range(handlers[c]) : C33_Count(invoked', h) = 1
               /\ Range(invoked') = Range(handlers[c])
               /\ \A h \in Observers : C33_Count(handlers[c], h) <= 1
     /\ \A c \in ObserverClasses : \A h \in Range(handlers[c]) :
          (lastCall' = "on" /\ mcalls' = mcalls + 1
             /\ handlers' = [handlers EXCEPT ![c] = SetAdd(@, h)])
            => handlers' = handlers]_vars

\* a message reached two observers although the one called first threw
C33_Witness ==
  /\ notified = "message" /\ invoked = <<1, 2>> /\ threwIn = {1}
  /\ handlers["message"] = <<1, 2>>

\* C34: every frame posted has bufferSize samples, and the frames posted so
\* far, one after the other, are the samples given to process so far cut to a
\* multiple of bufferSize: frame j holds samples (j-1)*bufferSize+1 to
\* j*bufferSize, and there is one frame for every full bufferSize samples.
C34_FramesAreTheInput ==
  /\ Len(posted) = fed \div bufferSize
  /\ \A j \in 1..Len(posted) :
       /\ DOMAIN posted[j] = 1..bufferSize
       /\ \A i \in 1..bufferSize :
            posted[j][i] = Sample((j - 1) * bufferSize + i)
  /\ bufferIndex = fed % bufferSize

\* a block of 9000 samples arrived with 128 samples waiting: two frames were
\* posted in one call and 936 samples wait
C34_Witness ==
  /\ lastBlock = Block(1, 9000) /\ fed = 9128
  /\ Len(posted) = 2 /\ bufferIndex = 936

\* C35: every sample, whatever its value, is stored as a value from -32768
\* to 32767; the bytes the server sends upstream are that value again (16 bits,
\* little-endian), 32767 for a sample of 1.0 and -32768 for a sample of -1.0.
C35_QuantizeInRange ==
  /\ qStage # "in"
       => /\ Len(qOut.ints) = Len(qIn)
          /\ \A i \in 1..Len(qIn) : qOut.ints[i] \in (-32768)..32767
  /\ qStage = "sent"
       => /\ qOut.pcm = qOut.ints
          /\ \A i \in 1..Len(qIn) :
               /\ qIn[i] = Rat(1, 1) => qOut.pcm[i] = 32767
               /\ qIn[i] = Rat(-1, 1) => qOut.pcm[i] = -32768

\* the samples 1.0 and -1.0 went through the browser and the server
C35_Witness ==
  /\ qStage = "sent" /\ qIn = <<Rat(1, 1), Rat(-1, 1)>>
  /\ qOut.pcm = <<32767, -32768>>
  /\ qOut.text = <<"/", "3", "8", "A", "g", "A", "=", "=">>

\* C37: the close or error event of an upstream socket that is not the
\* session's socket any more leaves isSessionActive set while the session's
\* socket is connecting or open.
C37_StaleCallbackKeepsActive ==
  [][\A s \in Sockets :
       (/\ sock'[s] # sock[s] /\ sock'[s] \in {"errored", "closed"}
        /\ s # ws /\ ws # NoSocket /\ sock[ws] \in {"connecting", "open"}
        /\ isSessionActive)
         => isSessionActive']_vars

\* C38: a payload of an upstream socket whose termination was confirmed to
\* the client adds no transcript event to what the client is sent.
C38_NoTranscriptAfterConfirmation ==
  [][(/\ Len(upLog') = Len(upLog) + 1
      /\ upLog'[Len(upLog')].sock \in terminated
      /\ CountMsg(observed \o wire, SessionTerminatedConfirm) > 0)
       => Transcripts(observed' \o wire') = Transcripts(observed \o wire)]_vars

\* C36: in every call of handleStopRecording, every poll of the wait loop
\* comes pollInterval = 200 ms after the one before, the loop is left at the
\* first poll at which the flag it reads says not connected and otherwise at
\* the tenth, never later, and the step that leaves it calls
\* closeIntentionally().
C36_BoundedWait ==
  [][\A i \in StopCalls :
       /\ attempts'[i] <= 10
       /\ (stopPc[i] = "wait" /\ attempts'[i] # attempts[i])
            => /\ attempts'[i] = attempts[i] + 1
               /\ waited'[i] = waited[i] + 200
               /\ stopPc'[i] # "wait" <=> (~capConnected[i] \/ attempts'[i] = 10)
               /\ stopPc'[i] # "wait"
                    => /\ lastCall' = "closeIntentionally"
                       /\ intentionalClose' /\ mws' = NoSocket
                       /\ ~isConnected'
       /\ (stopPc[i] = "wait" /\ stopPc'[i] # "wait")
            => attempts'[i] # attempts[i]
       /\ stopPc'[i] = "wait" => waited'[i] = 200 * attempts'[i]]_vars

\* the flag of the closure said connected: the loop made its ten polls
\* (2000 ms) on the reconnected channel and then closed it
C36_Witness ==
  \E i \in StopCalls :
    /\ stopPc[i] = "stopped" /\ attempts[i] = 10 /\ waited[i] = 2000
    /\ capConnected[i] /\ lastCall = "closeIntentionally"
    /\ msock[1] = "closed" /\ msock[2] = "closing"

\* positions of msent that hold text on socket s
C40_Sent(s, text) == {i \in 1..Len(msent) : msent[i] = <<s, text>>}

\* C40: on no socket does an audio_data frame follow terminate_session.
C40_NoAudioAfterTerminate ==
  \A s \in MgrSockets :
    \A i \in C40_Sent(s, "{\"terminate_session\":true}") :
      \A j \in C40_Sent(s, "{\"audio_data\":\"AAAA\"}") : j < i
====
